---- MODULE Spec2Model ----
(***************************************************************************)
(* Hierarchical summary cache of striim-cs-backend.                        *)
(*                                                                         *)
(* Two services write the shared `summaries` table:                        *)
(*   - HierarchicalSummaryService (hierarchical_summary_service.py), driven*)
(*     by the routes of api/routes/hierarchical_summaries.py.  It is       *)
(*     modelled by specification Spec: every awaited database or LLM call  *)
(*     is one step of a request, and requests of several tasks interleave. *)
(*   - SummaryService (summary_service.py), modelled further down by       *)
(*     specifications SpecS (store and dependency graph), SpecT (lookup    *)
(*     and TTL) and SpecC (statement by statement, two tasks).             *)
(* The route GET /ticket/{ticket_id} of api/routes/summaries.py reads and  *)
(* writes the same table by itself; it is modelled by specification SpecR. *)
(* Further down: SpecV (SpecT with lookups by id and invalidations), SpecG *)
(* (generate_summary await by await), SpecN (subscription notifications),  *)
(* SpecK (the recursive query of invalidate_summary) and SpecD (the        *)
(* per-ticket cache of DataProcessingService).                             *)
(***************************************************************************)
EXTENDS Integers, Sequences, FiniteSets, TLC

VARIABLES
    records,        \* source tables: records[type][id] = content version of the record
    summaries,      \* the summaries table, a sequence of rows; a row's id is its index
    now,            \* the database clock, NOW() / CURRENT_TIMESTAMP
    pc,             \* pc[p]: position of task p inside get_or_generate_summary
    req,            \* req[p]: summary_type, params and force_regenerate of p's request
    src,            \* src[p]: the source_data p fetched
    result,         \* result[p]: what p's last request returned
    wrote,          \* wrote[p]: p's current request has committed a change to the store
    relationships,  \* the summary_relationships table: <<parent_summary_id, child_summary_id>>
    sres,           \* SummaryService: the last get_or_generate_summary call and its outcome
    notifications   \* the notifications table, a sequence of rows

vars == <<records, summaries, now, pc, req, src, result, wrote, relationships, sres,
          notifications>>

\* what the requests of HierarchicalSummaryService never touch
svars == <<relationships, sres, notifications>>
\* what the calls of SummaryService never touch
hvars == <<pc, req, src, result, wrote, notifications>>

(***************************************************************************)
(* Bounds of the model.                                                    *)
(***************************************************************************)
NumItems == 2       \* source records 1..NumItems exist in every source table
MaxVersion == 1     \* a source record is mutated at most MaxVersion times
MaxRows == 3        \* rows the summaries table may hold

Procs == {"t1", "t2"}               \* concurrent request tasks
ItemIds == 1..NumItems
ReqItemIds == 1..(NumItems + 1)     \* NumItems + 1 is an id with no source record

\* None in Python, NULL in SQL, for date_range_start / date_range_end
NoDate == 0

(***************************************************************************)
(* HierarchicalSummaryService.SUMMARY_TYPES                                *)
(***************************************************************************)
SUMMARY_TYPES ==
    [individual |-> {"zendesk_ticket", "jira_issue", "salesforce_account"},
     group      |-> {"all_tickets", "all_issues", "all_accounts"},
     global     |-> {"system_wide"}]

\* ttl_hours of a summary type of HierarchicalSummaryService.SUMMARY_TYPES
H_ttl_hours(t) == IF t \in {"salesforce_account", "all_accounts", "system_wide"} THEN 48 ELSE 24

\* _store_summary, "Determine hierarchy level from summary type"
hierarchy_level(t) ==
    IF t \in SUMMARY_TYPES.individual THEN "individual"
    ELSE IF t \in SUMMARY_TYPES.group THEN "group"
    ELSE IF t \in SUMMARY_TYPES.global THEN "global"
    ELSE "individual"

\* _store_summary, category_mapping
category(t) ==
    IF t \in {"zendesk_ticket", "all_tickets"} THEN "zendesk"
    ELSE IF t \in {"jira_issue", "all_issues"} THEN "jira"
    ELSE IF t \in {"salesforce_account", "all_accounts"} THEN "salesforce"
    ELSE IF t = "system_wide" THEN "system"
    ELSE "other"

\* the types _get_source_data has a branch for
SupportedTypes == {"zendesk_ticket", "jira_issue", "salesforce_account", "all_tickets"}

\* the source table an individual type reads
SourceTables == SUMMARY_TYPES.individual

\* zendesk_tickets.source_created_at: ticket i was created on day i
source_created_at(i) == i

(***************************************************************************)
(* Requests, as the three routes build them.                               *)
(***************************************************************************)
\* get_individual_summary: params = {filters, item_id, ticket_id | issue_id | account_id};
\* no date range and no include list
IndividualRequest(t, i) ==
    [summary_type |-> t, item_id |-> i, date_range_start |-> NoDate,
     date_range_end |-> NoDate, include_ticket_ids |-> <<>>]

\* get_group_summary / get_global_summary: params = {date_range_start, date_range_end,
\* include_ticket_ids?}; <<>> stands for an absent or empty include list, which the
\* code treats alike (`if params.get('include_ticket_ids')`)
GroupRequest(t, s, e, inc) ==
    [summary_type |-> t, item_id |-> 0, date_range_start |-> s,
     date_range_end |-> e, include_ticket_ids |-> inc]

IndividualRequests ==
    {IndividualRequest("zendesk_ticket", i) : i \in ReqItemIds}
        \cup {IndividualRequest("jira_issue", 1)}

GroupRequests ==
    {GroupRequest("all_tickets", NoDate, NoDate, <<>>),
     GroupRequest("all_tickets", NoDate, NoDate, <<1>>),
     GroupRequest("all_tickets", 2, NoDate, <<>>)}

\* all_issues, all_accounts and system_wide have no branch in _get_source_data
GlobalRequests == {GroupRequest("system_wide", NoDate, NoDate, <<>>)}

SeqToSet(s) == {s[k] : k \in 1..Len(s)}

\* get_individual_summary passes any source_type string on to the service
UnknownRequests == {IndividualRequest("unknown_type", 1)}

Requests == IndividualRequests \cup GroupRequests \cup GlobalRequests \cup UnknownRequests

\* rows_before: how many rows the summaries table held when a call for an
\* individual summary was made
NoRequest ==
    [summary_type |-> "none", item_id |-> 0, date_range_start |-> NoDate,
     date_range_end |-> NoDate, include_ticket_ids |-> <<>>, force_regenerate |-> FALSE,
     rows_before |-> 0]

WithForce(r, f) ==
    [summary_type |-> r.summary_type, item_id |-> r.item_id,
     date_range_start |-> r.date_range_start, date_range_end |-> r.date_range_end,
     include_ticket_ids |-> r.include_ticket_ids, force_regenerate |-> f,
     rows_before |-> IF r.summary_type \in SUMMARY_TYPES.individual
                     THEN Len(summaries) ELSE 0]

(***************************************************************************)
(* Source data, generated text and hash.                                   *)
(***************************************************************************)
NoText == <<>>          \* a NULL summary text
NoSource == [kind |-> "none", rows |-> {}]

\* llm_service.generate_summary(text=json.dumps(source_data), summary_type):
\* a function of its input
LlmSummary(t, source_data) == <<"llm", t, source_data>>

\* _format_ticket_summary_markdown: a function of the generated text
format_ticket_summary_markdown(text) == <<"markdown", text>>

\* _generate_summary, "Ensure proper markdown formatting"
formatted_summary(t, source_data) ==
    IF t = "all_tickets" THEN format_ticket_summary_markdown(LlmSummary(t, source_data))
    ELSE LlmSummary(t, source_data)

\* _store_summary: hash_signature = str(hash(str(source_data)))
hash_of(source_data) == <<"hash", source_data>>

\* _get_ticket_data / _get_issue_data / _get_account_data: the core record
individual_data(R, t, id) ==
    [kind |-> t, rows |-> {[id |-> id, version |-> R[t][id], ticket_summary |-> NoText]}]

\* _get_all_tickets_data: tickets in the date range, filtered by include_ticket_ids,
\* LEFT JOINed with the valid zendesk_ticket summaries of each ticket
InDateRange(i, s, e) ==
    /\ (s = NoDate \/ source_created_at(i) >= s)
    /\ (e = NoDate \/ source_created_at(i) <= e)

ValidTicketSummaries(S, i) ==
    {k \in 1..Len(S) : /\ S[k].summary_type = "zendesk_ticket"
                       /\ S[k].is_valid
                       /\ S[k].source_ids.key = "ticket_id"
                       /\ S[k].source_ids.ids = {i}}

get_all_tickets_data(R, S, r) ==
    LET picked == {i \in ItemIds :
                     /\ InDateRange(i, r.date_range_start, r.date_range_end)
                     /\ (r.include_ticket_ids # <<>> => i \in SeqToSet(r.include_ticket_ids))}
        joined(i) ==
            IF ValidTicketSummaries(S, i) = {}
            THEN {[id |-> i, version |-> R["zendesk_ticket"][i], ticket_summary |-> NoText]}
            ELSE {[id |-> i, version |-> R["zendesk_ticket"][i],
                   ticket_summary |-> S[k].summary] : k \in ValidTicketSummaries(S, i)}
    IN [kind |-> "all_tickets", rows |-> UNION {joined(i) : i \in picked}]

\* _get_source_data succeeds
CanFetch(r) ==
    /\ r.summary_type \in SupportedTypes
    /\ (r.summary_type \in SourceTables => r.item_id \in ItemIds)

get_source_data(R, S, r) ==
    IF r.summary_type = "all_tickets" THEN get_all_tickets_data(R, S, r)
    ELSE individual_data(R, r.summary_type, r.item_id)

(***************************************************************************)
(* The summaries table as HierarchicalSummaryService reads and writes it.  *)
(***************************************************************************)
RowIds(S) == 1..Len(S)

\* _store_summary, "Prepare source_ids based on actual source data"
source_ids_of(t, source_data) ==
    IF t = "zendesk_ticket" THEN [key |-> "ticket_id", ids |-> {x.id : x \in source_data.rows}]
    ELSE IF t = "jira_issue" THEN [key |-> "issue_id", ids |-> {x.id : x \in source_data.rows}]
    ELSE IF t = "salesforce_account" THEN [key |-> "account_id", ids |-> {x.id : x \in source_data.rows}]
    ELSE IF t = "all_tickets" THEN [key |-> "ticket_ids", ids |-> {x.id : x \in source_data.rows}]
    ELSE [key |-> "none", ids |-> {}]

\* _store_summary, "Prepare query_params based on actual parameters used"
query_params_of(r) ==
    [force_regenerate |-> FALSE,
     date_range |-> IF r.date_range_start # NoDate \/ r.date_range_end # NoDate
                    THEN <<r.date_range_start, r.date_range_end>> ELSE <<>>,
     include_ticket_ids |-> r.include_ticket_ids]

\* the row _store_summary INSERTs; is_valid takes the column default
new_row(S, t, r, source_data, clock) ==
    [id |-> Len(S) + 1,
     summary_type |-> t,
     hierarchy_level |-> hierarchy_level(t),
     category |-> category(t),
     summary |-> formatted_summary(t, source_data),
     source_ids |-> source_ids_of(t, source_data),
     query_params |-> query_params_of(r),
     date_range_start |-> r.date_range_start,
     date_range_end |-> r.date_range_end,
     hash_signature |-> hash_of(source_data),
     last_generated_at |-> clock,
     last_verified_at |-> clock,
     is_valid |-> TRUE]

\* the WHERE clause of _get_valid_cached_summary
cache_candidates(S, r) ==
    {k \in RowIds(S) : /\ S[k].summary_type = r.summary_type
                       /\ S[k].is_valid
                       /\ S[k].date_range_start = r.date_range_start
                       /\ S[k].date_range_end = r.date_range_end}

\* ORDER BY last_generated_at DESC LIMIT 1
get_valid_cached_summary(S, r) ==
    {k \in cache_candidates(S, r) :
        \A j \in cache_candidates(S, r) : S[j].last_generated_at <= S[k].last_generated_at}

\* no UPDATE at all
invalidate_group_summaries_skipped(S, ticket_id) == S

\* an UPDATE that would match only the groups over exactly [ticket_id]
invalidate_group_summaries_exact(S, ticket_id) ==
    [k \in RowIds(S) |->
        IF /\ S[k].summary_type = "all_tickets"
           /\ S[k].source_ids.key = "ticket_ids"
           /\ S[k].source_ids.ids = {ticket_id}
           /\ S[k].is_valid
        THEN [S[k] EXCEPT !.is_valid = FALSE]
        ELSE S[k]]

\* _invalidate_group_summaries: the UPDATE ... WHERE source_ids->'ticket_ids' @> [ticket_id]
invalidate_group_summaries(S, ticket_id) ==
    [k \in RowIds(S) |->
        IF /\ S[k].summary_type = "all_tickets"
           /\ S[k].source_ids.key = "ticket_ids"
           /\ ticket_id \in S[k].source_ids.ids
           /\ S[k].is_valid
        THEN [S[k] EXCEPT !.is_valid = FALSE]
        ELSE S[k]]

(***************************************************************************)
(* Results of a request.                                                   *)
(***************************************************************************)
NoResult == [kind |-> "none", row |-> 0]
Cached(k) == [kind |-> "cached", row |-> k]
Generated(k) == [kind |-> "generated", row |-> k]
Failed == [kind |-> "failed", row |-> 0]

InFlight == {p \in Procs : pc[p] # "idle"}

\* SummaryService has made no call
NoCall == [flip |-> FALSE, kind |-> "none"]

(***************************************************************************)
(* Init: empty store, every source record in its first version.            *)
(***************************************************************************)
Init ==
    /\ records = [t \in SourceTables |-> [i \in ItemIds |-> 0]]
    /\ summaries = <<>>
    /\ now = 0
    /\ pc = [p \in Procs |-> "idle"]
    /\ req = [p \in Procs |-> NoRequest]
    /\ src = [p \in Procs |-> NoSource]
    /\ result = [p \in Procs |-> NoResult]
    /\ wrote = [p \in Procs |-> FALSE]
    /\ relationships = {}
    /\ sres = NoCall
    /\ notifications = <<>>

(***************************************************************************)
(* A source record changes (an external writer of the source tables).       *)
(***************************************************************************)
MutateRecord(t, i) ==
    /\ records[t][i] < MaxVersion
    /\ records' = [records EXCEPT ![t][i] = @ + 1]
    /\ UNCHANGED <<summaries, now, pc, req, src, result, wrote>>
    /\ UNCHANGED svars

(***************************************************************************)
(* HierarchicalSummaryService.get_or_generate_summary, one step per await. *)
(***************************************************************************)
\* a route calls get_or_generate_summary(summary_type, params, force_regenerate)
Call(p, r, force) ==
    /\ pc[p] = "idle"
    /\ Len(summaries) + Cardinality(InFlight) < MaxRows
    /\ req' = [req EXCEPT ![p] = WithForce(r, force)]
    /\ pc' = [pc EXCEPT ![p] = IF force THEN "Fetch" ELSE "CheckCache"]
    /\ src' = [src EXCEPT ![p] = NoSource]
    /\ result' = [result EXCEPT ![p] = NoResult]
    /\ wrote' = [wrote EXCEPT ![p] = FALSE]
    /\ UNCHANGED <<records, summaries, now>>
    /\ UNCHANGED svars

\* _get_valid_cached_summary found a row: it is returned as it is
CheckCacheHit(p) ==
    /\ pc[p] = "CheckCache"
    /\ \E k \in get_valid_cached_summary(summaries, req[p]) :
          result' = [result EXCEPT ![p] = Cached(k)]
    /\ pc' = [pc EXCEPT ![p] = "idle"]
    /\ req' = [req EXCEPT ![p] = NoRequest]
    /\ UNCHANGED <<records, summaries, now, src, wrote>>
    /\ UNCHANGED svars

\* _get_valid_cached_summary found no row
CheckCacheMiss(p) ==
    /\ pc[p] = "CheckCache"
    /\ get_valid_cached_summary(summaries, req[p]) = {}
    /\ pc' = [pc EXCEPT ![p] = "Fetch"]
    /\ UNCHANGED <<records, summaries, now, req, src, result, wrote>>
    /\ UNCHANGED svars

\* a lookup that would let the exception of the read reach get_or_generate_summary
CheckCacheError_raising(p) ==
    /\ pc[p] = "CheckCache"
    /\ pc' = [pc EXCEPT ![p] = "idle"]
    /\ result' = [result EXCEPT ![p] = Failed]
    /\ req' = [req EXCEPT ![p] = NoRequest]
    /\ src' = [src EXCEPT ![p] = NoSource]
    /\ wrote' = [wrote EXCEPT ![p] = FALSE]
    /\ UNCHANGED <<records, summaries, now>>
    /\ UNCHANGED svars

\* the read raised: _get_valid_cached_summary logs and returns None
CheckCacheError(p) ==
    /\ pc[p] = "CheckCache"
    /\ pc' = [pc EXCEPT ![p] = "Fetch"]
    /\ UNCHANGED <<records, summaries, now, req, src, result, wrote>>
    /\ UNCHANGED svars

\* the request ends with the exception re-raised by get_or_generate_summary
Fail(p) ==
    /\ pc' = [pc EXCEPT ![p] = "idle"]
    /\ result' = [result EXCEPT ![p] = Failed]
    /\ req' = [req EXCEPT ![p] = NoRequest]
    /\ src' = [src EXCEPT ![p] = NoSource]
    /\ wrote' = [wrote EXCEPT ![p] = FALSE]

\* _get_source_data returns
Fetch(p) ==
    /\ pc[p] = "Fetch"
    /\ CanFetch(req[p])
    /\ src' = [src EXCEPT ![p] = get_source_data(records, summaries, req[p])]
    /\ pc' = [pc EXCEPT ![p] = "Generate"]
    /\ UNCHANGED <<records, summaries, now, req, result, wrote>>
    /\ UNCHANGED svars

\* _get_source_data raises ValueError: unsupported type, or record not found
FetchRejected(p) ==
    /\ pc[p] = "Fetch"
    /\ ~CanFetch(req[p])
    /\ Fail(p)
    /\ UNCHANGED <<records, summaries, now>>
    /\ UNCHANGED svars

\* a source query raises
FetchError(p) ==
    /\ pc[p] = "Fetch"
    /\ CanFetch(req[p])
    /\ Fail(p)
    /\ UNCHANGED <<records, summaries, now>>
    /\ UNCHANGED svars

\* llm_service.generate_summary returns
Generate(p) ==
    /\ pc[p] = "Generate"
    /\ pc' = [pc EXCEPT ![p] = IF req[p].summary_type = "zendesk_ticket"
                               THEN "Invalidate" ELSE "Insert"]
    /\ UNCHANGED <<records, summaries, now, req, src, result, wrote>>
    /\ UNCHANGED svars

\* llm_service.generate_summary raises
GenerateError(p) ==
    /\ pc[p] = "Generate"
    /\ Fail(p)
    /\ UNCHANGED <<records, summaries, now>>
    /\ UNCHANGED svars

\* _store_summary of a zendesk_ticket: _invalidate_group_summaries(ticket id),
\* an UPDATE committed on its own connection
Invalidate(p) ==
    /\ pc[p] = "Invalidate"
    /\ \E i \in {x.id : x \in src[p].rows} :
          summaries' = invalidate_group_summaries(summaries, i)
    /\ wrote' = [wrote EXCEPT ![p] = wrote[p] \/ summaries' # summaries]
    /\ pc' = [pc EXCEPT ![p] = "Insert"]
    /\ UNCHANGED <<records, now, req, src, result>>
    /\ UNCHANGED svars

\* the UPDATE of _invalidate_group_summaries raises
InvalidateError(p) ==
    /\ pc[p] = "Invalidate"
    /\ Fail(p)
    /\ UNCHANGED <<records, summaries, now>>
    /\ UNCHANGED svars

\* _store_summary: INSERT INTO summaries ... RETURNING *
Insert(p) ==
    /\ pc[p] = "Insert"
    /\ Len(summaries) < MaxRows
    /\ now' = now + 1
    /\ summaries' = Append(summaries,
                           new_row(summaries, req[p].summary_type, req[p], src[p], now'))
    /\ result' = [result EXCEPT ![p] = Generated(Len(summaries) + 1)]
    /\ wrote' = [wrote EXCEPT ![p] = FALSE]
    /\ pc' = [pc EXCEPT ![p] = "idle"]
    /\ src' = [src EXCEPT ![p] = NoSource]
    /\ req' = [req EXCEPT ![p] = NoRequest]
    /\ UNCHANGED records
    /\ UNCHANGED svars

\* the INSERT raises
InsertError(p) ==
    /\ pc[p] = "Insert"
    /\ Fail(p)
    /\ UNCHANGED <<records, summaries, now>>
    /\ UNCHANGED svars

Next ==
    \/ \E t \in {"zendesk_ticket"}, i \in ItemIds : MutateRecord(t, i)
    \/ \E p \in Procs, r \in Requests, f \in BOOLEAN : Call(p, r, f)
    \/ \E p \in Procs : CheckCacheHit(p)
    \/ \E p \in Procs : CheckCacheMiss(p)
    \/ \E p \in Procs : CheckCacheError(p)
    \/ \E p \in Procs : Fetch(p)
    \/ \E p \in Procs : FetchRejected(p)
    \/ \E p \in Procs : FetchError(p)
    \/ \E p \in Procs : Generate(p)
    \/ \E p \in Procs : GenerateError(p)
    \/ \E p \in Procs : Invalidate(p)
    \/ \E p \in Procs : InvalidateError(p)
    \/ \E p \in Procs : Insert(p)
    \/ \E p \in Procs : InsertError(p)

Spec == Init /\ [][Next]_vars

(***************************************************************************)
(* SummaryService (summary_service.py), specifications SpecS and SpecT.    *)
(*                                                                         *)
(* A call of get_or_generate_summary is one action.  Every db.execute /    *)
(* db.fetchrow acquires its own pooled connection (database.py, execute),  *)
(* so each statement commits by itself: a call that raises part-way keeps  *)
(* the statements it has already run.                                      *)
(*                                                                         *)
(* Not in the source and modelled from the design text: db.transaction(),  *)
(* get_ticket_data / get_multi_ticket_data / get_company_data (the source  *)
(* fetchers called by get_source_data) and calculate_metadata.             *)
(***************************************************************************)
MaxTime == 72           \* the clock stops here
MaxRowsS == 3           \* rows the summaries table may hold under SpecS
MaxRowsT == 2           \* rows the summaries table may hold under SpecT
ClockSteps == {24}      \* hours the clock advances by in one step

\* SummaryService.SUMMARY_TYPES
S_level(t) ==
    IF t = "ticket" THEN 1 ELSE IF t = "multi_ticket" THEN 2
    ELSE IF t = "company" THEN 3 ELSE 4

S_ttl_hours(t) ==
    IF t = "ticket" THEN 24 ELSE IF t = "multi_ticket" THEN 48
    ELSE IF t = "company" THEN 72 ELSE 96

S_Types == {"ticket", "multi_ticket", "company"}

\* params of a call: filters is <<>> when the key is absent, <<f>> when it is f
Params(ids, d, raw, f) ==
    [ticket_ids |-> ids, date_range_start |-> d, date_range_end |-> d,
     use_raw_data |-> raw, filters |-> f]

\* calls as the routes make them (no filters key): a ticket summary from raw data,
\* a multi_ticket summary built from ticket summaries, a company summary built from
\* multi_ticket summaries, and a multi_ticket summary from raw data
TicketCall == [summary_type |-> "ticket", params |-> Params(<<1>>, 1, TRUE, <<>>)]
MultiTicketCall == [summary_type |-> "multi_ticket", params |-> Params(<<1, 2>>, 1, FALSE, <<>>)]
CompanyCall == [summary_type |-> "company", params |-> Params(<<1, 2>>, 1, FALSE, <<>>)]
RawMultiTicketCall == [summary_type |-> "multi_ticket", params |-> Params(<<1, 2>>, 1, TRUE, <<>>)]

\* RawMultiTicketCall with the ticket ids listed in the other order
PermutedMultiTicketCall ==
    [summary_type |-> "multi_ticket", params |-> Params(<<2, 1>>, 1, TRUE, <<>>)]

\* a call whose filters repeat the whole params of call c, the only kind of call
\* whose lookup key can equal the query_params stored by c
FilterCall(c) ==
    [summary_type |-> c.summary_type, params |-> [c.params EXCEPT !.filters = <<c.params>>]]

\* the calls of SpecS (store and dependency graph) and of SpecT (lookup and TTL)
GraphCalls == {TicketCall, MultiTicketCall, CompanyCall}
TtlCalls == {TicketCall, RawMultiTicketCall, PermutedMultiTicketCall,
             FilterCall(TicketCall), FilterCall(RawMultiTicketCall)}

\* json.dumps
Dumps(x) == <<"json", x>>

\* get_valid_summary: json.dumps(params.get('filters', {}))
DumpsFilters(params) ==
    IF params.filters = <<>> THEN <<"{}">> ELSE Dumps(params.filters[1])

\* SQL `column = $n`: never true of NULL
SqlEq(a, b) == a # NoDate /\ b # NoDate /\ a = b

\* a SELECT that would leave out `AND is_valid = true`
get_valid_summary_any(S, t, params) ==
    {k \in RowIds(S) : /\ S[k].summary_type = t
                       /\ S[k].query_params = DumpsFilters(params)
                       /\ SqlEq(S[k].date_range_start, params.date_range_start)
                       /\ SqlEq(S[k].date_range_end, params.date_range_end)}

\* get_valid_summary: the rows the SELECT matches
get_valid_summary(S, t, params) ==
    {k \in RowIds(S) : /\ S[k].summary_type = t
                       /\ S[k].query_params = DumpsFilters(params)
                       /\ S[k].is_valid
                       /\ SqlEq(S[k].date_range_start, params.date_range_start)
                       /\ SqlEq(S[k].date_range_end, params.date_range_end)}

\* calculate_source_data_hash: only 'ticket' reads any data
calculate_source_data_hash(R, source_ids, t) ==
    <<"sha256",
      IF t = "ticket"
      THEN [k \in 1..Len(source_ids) |->
               [id |-> source_ids[k], version |-> R["zendesk_ticket"][source_ids[k]]]]
      ELSE <<>>>>

\* a check that would recompute the source hash every time
ttl_elapsed_always(row, clock) == TRUE

\* a check that would also recompute the source hash when exactly ttl_hours have passed
ttl_elapsed_at_ttl(row, clock) ==
    clock - row.last_verified_at >= S_ttl_hours(row.summary_type)

\* is_summary_valid, "Check TTL": the source hash is recomputed
ttl_elapsed(row, clock) ==
    clock - row.last_verified_at > S_ttl_hours(row.summary_type)

\* invalidate_summary: the recursive CTE over summary_relationships
RECURSIVE dependents_from(_, _)
dependents_from(E, D) ==
    LET more == D \cup {e[2] : e \in {x \in E : x[1] \in D}}
    IN IF more = D THEN D ELSE dependents_from(E, more)

dependent_summaries(E, summary_id) ==
    dependents_from(E, {e[2] : e \in {x \in E : x[1] = summary_id}})

\* an invalidation that would flip is_valid instead of clearing it
invalidate_summary_toggling(S, E, summary_id) ==
    [k \in RowIds(S) |->
        IF k = summary_id \/ k \in dependent_summaries(E, summary_id)
        THEN [S[k] EXCEPT !.is_valid = ~S[k].is_valid]
        ELSE S[k]]

\* an invalidation that would DELETE the rows instead
invalidate_summary_deleting(S, E, summary_id) ==
    SelectSeq(S, LAMBDA row : /\ row.id # summary_id
                              /\ row.id \notin dependent_summaries(E, summary_id))

\* invalidate_summary: both UPDATEs
invalidate_summary(S, E, summary_id) ==
    [k \in RowIds(S) |->
        IF k = summary_id \/ k \in dependent_summaries(E, summary_id)
        THEN [S[k] EXCEPT !.is_valid = FALSE]
        ELSE S[k]]

\* an UPDATE that would refresh last_generated_at as well
update_verification_time_both(S, summary_id, clock) ==
    [S EXCEPT ![summary_id].last_verified_at = clock,
              ![summary_id].last_generated_at = clock]

\* update_verification_time
update_verification_time(S, summary_id, clock) ==
    [S EXCEPT ![summary_id].last_verified_at = clock]

\* is_summary_valid: "fresh" inside the TTL, else "verified" or "mismatch"
is_summary_valid(R, row, clock) ==
    IF ~ttl_elapsed(row, clock) THEN "fresh"
    ELSE IF calculate_source_data_hash(R, row.source_ids, row.summary_type)
              # row.hash_signature
         THEN "mismatch"
         ELSE "verified"

\* the store after is_summary_valid has run on row k
after_validity_check(R, S, E, k, clock) ==
    IF is_summary_valid(R, S[k], clock) = "mismatch" THEN invalidate_summary(S, E, k)
    ELSE IF is_summary_valid(R, S[k], clock) = "verified"
         THEN update_verification_time(S, k, clock)
         ELSE S

\* a fetch that would build from the valid summaries of every level
S_get_source_data_any_level(R, S, t, params) ==
    LET ids == IF t = "ticket" THEN <<params.ticket_ids[1]>> ELSE params.ticket_ids
    IN [ids |-> ids,
        rows |-> {[id |-> i, version |-> R["zendesk_ticket"][i]] : i \in SeqToSet(ids)},
        summary_ids |->
            IF params.use_raw_data THEN {}
            ELSE {k \in RowIds(S) : S[k].is_valid}]

\* get_source_data: ids of the scope, and for use_raw_data = false the valid
\* summaries of the level below as source_summary_ids
S_get_source_data(R, S, t, params) ==
    LET ids == IF t = "ticket" THEN <<params.ticket_ids[1]>> ELSE params.ticket_ids
    IN [ids |-> ids,
        rows |-> {[id |-> i, version |-> R["zendesk_ticket"][i]] : i \in SeqToSet(ids)},
        summary_ids |->
            IF params.use_raw_data THEN {}
            ELSE {k \in RowIds(S) : /\ S[k].is_valid
                                    /\ S_level(S[k].summary_type) = S_level(t) - 1}]

\* store_summary: the row ON CONFLICT (summary_type, query_params, date_range_start,
\* date_range_end) finds; NULL dates never conflict
conflicting_rows(S, t, params) ==
    {k \in RowIds(S) : /\ S[k].summary_type = t
                       /\ S[k].query_params = Dumps(params)
                       /\ SqlEq(S[k].date_range_start, params.date_range_start)
                       /\ SqlEq(S[k].date_range_end, params.date_range_end)}

\* the id RETURNING * gives
stored_id(S, t, params) ==
    IF conflicting_rows(S, t, params) = {} THEN Len(S) + 1
    ELSE CHOOSE k \in conflicting_rows(S, t, params) : TRUE

\* store_summary: INSERT ... ON CONFLICT DO UPDATE
S_row(id, t, params, source_data, hash, clock) ==
    [id |-> id,
     summary_type |-> t,
     summary |-> LlmSummary(t, source_data),
     source_type |-> IF params.use_raw_data THEN "raw_data" ELSE "existing_summaries",
     source_ids |-> source_data.ids,
     source_summary_ids |-> source_data.summary_ids,
     query_params |-> Dumps(params),
     date_range_start |-> params.date_range_start,
     date_range_end |-> params.date_range_end,
     hash_signature |-> hash,
     last_generated_at |-> clock,
     last_verified_at |-> clock,
     is_valid |-> TRUE]

store_summary(S, t, params, source_data, hash, clock) ==
    IF conflicting_rows(S, t, params) = {}
    THEN Append(S, S_row(Len(S) + 1, t, params, source_data, hash, clock))
    ELSE [S EXCEPT ![stored_id(S, t, params)] =
             S_row(stored_id(S, t, params), t, params, source_data, hash, clock)]

\* store_summary_relationships: DELETE the parent's edges, INSERT one per child
store_summary_relationships(E, parent_id, child_ids) ==
    {e \in E : e[1] # parent_id} \cup {<<parent_id, c>> : c \in child_ids}

\* store_summary, "Store relationships if using existing summaries"
relationships_after_store(E, parent_id, source_summary_ids) ==
    IF source_summary_ids # {}
    THEN store_summary_relationships(E, parent_id, source_summary_ids)
    ELSE E

\* a record the row was generated from has changed since
S_Stale(R, row) ==
    \E x \in row.summary[3].rows : R["zendesk_ticket"][x.id] # x.version

\* the outcome of a call, kept until the next one
S_Outcome(call, force, kind, row, summary, checks, fetched, stale) ==
    [flip |-> ~sres.flip, kind |-> kind, call |-> call, force |-> force,
     row |-> row, summary |-> summary,
     hash_checks |-> checks, fetched |-> fetched, stale |-> stale]

InitS ==
    /\ records = [t \in SourceTables |-> [i \in ItemIds |-> 0]]
    /\ summaries = <<>>
    /\ relationships = {}
    /\ now = 0
    /\ sres = NoCall
    /\ notifications = <<>>
    /\ pc = [p \in Procs |-> "idle"]
    /\ req = [p \in Procs |-> NoRequest]
    /\ src = [p \in Procs |-> NoSource]
    /\ result = [p \in Procs |-> NoResult]
    /\ wrote = [p \in Procs |-> FALSE]

\* time passes
S_Tick ==
    /\ \E d \in ClockSteps : now + d <= MaxTime /\ now' = now + d
    /\ UNCHANGED <<records, summaries, relationships, sres>>
    /\ UNCHANGED hvars

\* a ticket changes
S_MutateRecord(i) ==
    /\ records["zendesk_ticket"][i] < MaxVersion
    /\ records' = [records EXCEPT !["zendesk_ticket"][i] = @ + 1]
    /\ sres' = [flip |-> sres.flip, kind |-> "none"]
    /\ UNCHANGED <<summaries, relationships, now>>
    /\ UNCHANGED hvars

\* get_or_generate_summary returns the row get_valid_summary found
S_ServeCached(call, k) ==
    /\ k \in get_valid_summary(summaries, call.summary_type, call.params)
    /\ is_summary_valid(records, summaries[k], now) # "mismatch"
    /\ summaries' = after_validity_check(records, summaries, relationships, k, now)
    /\ sres' = S_Outcome(call, FALSE, "cached", k, summaries[k].summary,
                         IF is_summary_valid(records, summaries[k], now) = "fresh"
                         THEN 0 ELSE 1,
                         FALSE, S_Stale(records, summaries[k]))
    /\ UNCHANGED <<records, relationships, now>>
    /\ UNCHANGED hvars

\* get_or_generate_summary generates: cache skipped (force), missed, or the row
\* found was invalidated by is_summary_valid (k # 0)
S_Generate(call, force, k) ==
    LET t == call.summary_type
        P == call.params
        S1 == IF k = 0 THEN summaries
              ELSE after_validity_check(records, summaries, relationships, k, now)
        source_data == S_get_source_data(records, S1, t, P)
        hash == calculate_source_data_hash(records, source_data.ids, t)
        id == stored_id(S1, t, P)
    IN /\ IF force THEN k = 0
          ELSE IF get_valid_summary(summaries, t, P) = {} THEN k = 0
          ELSE /\ k \in get_valid_summary(summaries, t, P)
               /\ is_summary_valid(records, summaries[k], now) = "mismatch"
       /\ id <= MaxRowsS
       /\ summaries' = store_summary(S1, t, P, source_data, hash, now)
       /\ relationships' =
             relationships_after_store(relationships, id, source_data.summary_ids)
       /\ sres' = S_Outcome(call, force, "generated", id, LlmSummary(t, source_data),
                            IF k = 0 THEN 1 ELSE 2, TRUE, FALSE)
       /\ UNCHANGED <<records, now>>
       /\ UNCHANGED hvars

\* get_or_generate_summary raises: is_summary_valid found the hash of row k changed
\* and invalidate_summary raised, entering db.transaction() or in its first
\* statement (~root_done) or after the UPDATE of row k committed (root_done);
\* is_summary_valid and get_valid_summary catch nothing, get_or_generate_summary
\* logs and re-raises
S_InvalidateRaises(call, k, root_done) ==
    /\ k \in get_valid_summary(summaries, call.summary_type, call.params)
    /\ is_summary_valid(records, summaries[k], now) = "mismatch"
    /\ summaries' = IF root_done THEN [summaries EXCEPT ![k].is_valid = FALSE]
                    ELSE summaries
    /\ sres' = S_Outcome(call, FALSE, "failed", k, summaries[k].summary,
                         1, FALSE, S_Stale(records, summaries[k]))
    /\ UNCHANGED <<records, relationships, now>>
    /\ UNCHANGED hvars

\* GET /summaries/{summary_id}: SELECT * FROM summaries WHERE id = $1 AND
\* is_valid = true; the row, or an error saying no valid summary has this id
S_GetExisting(summary_id) ==
    /\ sres' = [flip |-> ~sres.flip,
                kind |-> IF /\ summary_id \in RowIds(summaries)
                            /\ summaries[summary_id].is_valid
                         THEN "found" ELSE "not_found",
                row |-> summary_id]
    /\ UNCHANGED <<records, summaries, relationships, now>>
    /\ UNCHANGED hvars

\* invalidate_summary called on a stored row
S_Invalidate(k) ==
    /\ k \in RowIds(summaries)
    /\ summaries' = invalidate_summary(summaries, relationships, k)
    /\ sres' = [flip |-> ~sres.flip, kind |-> "invalidated", row |-> k]
    /\ UNCHANGED <<records, relationships, now>>
    /\ UNCHANGED hvars

NextS ==
    \/ \E i \in ItemIds : S_MutateRecord(i)
    \/ \E c \in GraphCalls, f \in BOOLEAN : S_Generate(c, f, 0)
    \/ \E k \in 1..MaxRowsS : S_Invalidate(k)

NextT ==
    \/ S_Tick
    \/ S_MutateRecord(1)
    \/ \E c \in TtlCalls, k \in 1..MaxRowsT : S_ServeCached(c, k)
    \/ \E c \in TtlCalls, k \in 0..MaxRowsT :
          S_Generate(c, FALSE, k) /\ Len(summaries') <= MaxRowsT
    \/ S_Generate(TicketCall, TRUE, 0) /\ Len(summaries') <= MaxRowsT
    \/ \E c \in TtlCalls, k \in 1..MaxRowsT, d \in BOOLEAN : S_InvalidateRaises(c, k, d)

SpecS == InitS /\ [][NextS]_vars

SpecT == InitS /\ [][NextT]_vars

\* SpecT with the lookup by id and with invalidate_summary called on stored rows
NextV ==
    \/ NextT
    \/ \E k \in 1..MaxRowsT : S_GetExisting(k)
    \/ \E k \in 1..MaxRowsT : S_Invalidate(k)

SpecV == InitS /\ [][NextV]_vars

(***************************************************************************)
(* Keys and staleness, used to state the claims.                           *)
(***************************************************************************)
\* the key of a request: summary_type, date range, and the query params that
\* identify it (the item of an individual request, the include list as a set)
ReqKey(r) ==
    <<r.summary_type, r.date_range_start, r.date_range_end,
      IF r.summary_type \in SUMMARY_TYPES.individual THEN {r.item_id} ELSE {},
      SeqToSet(r.include_ticket_ids)>>

\* the key a stored row was generated for
RowKey(row) ==
    <<row.summary_type, row.date_range_start, row.date_range_end,
      IF row.hierarchy_level = "individual" THEN row.source_ids.ids ELSE {},
      SeqToSet(row.query_params.include_ticket_ids)>>

\* a source record the row was generated from has changed since
Stale(row) ==
    \E x \in row.hash_signature[2].rows :
        records[IF row.hierarchy_level = "individual" THEN row.summary_type
                ELSE "zendesk_ticket"][x.id] # x.version

\* C1: at most one row per key has is_valid = true
C1_AtMostOneValidPerKey ==
    \A a \in RowIds(summaries), b \in RowIds(summaries) :
        (a # b /\ summaries[a].is_valid /\ summaries[b].is_valid)
            => RowKey(summaries[a]) # RowKey(summaries[b])

\* C2: a row returned from the cache was generated for the key of the request
C2_CachedRowHasRequestKey ==
    [][\A p \in Procs :
         (pc[p] = "CheckCache" /\ result'[p].kind = "cached")
            => RowKey(summaries[result'[p].row]) = ReqKey(req[p])]_vars

\* C4: _invalidate_group_summaries(i) leaves every all_tickets row whose ticket_ids
\* contain i invalid, and changes no individual row
C4_ContainmentInvalidation ==
    [][\A p \in Procs :
         (pc[p] = "Invalidate" /\ pc'[p] = "Insert")
            => /\ Len(summaries') = Len(summaries)
               /\ \A k \in RowIds(summaries) :
                    /\ (/\ summaries[k].summary_type = "all_tickets"
                        /\ req[p].item_id \in summaries[k].source_ids.ids)
                          => ~summaries'[k].is_valid
                    /\ summaries[k].hierarchy_level = "individual"
                          => summaries'[k] = summaries[k]]_vars

\* C4 witness: a ticket generation has just invalidated a group over several tickets
\* while the other tickets of the group keep a valid individual summary
C4_Witness ==
    \E p \in Procs :
        /\ pc[p] = "Insert"
        /\ req[p].summary_type = "zendesk_ticket"
        /\ \E g \in RowIds(summaries) :
             /\ summaries[g].summary_type = "all_tickets"
             /\ ~summaries[g].is_valid
             /\ req[p].item_id \in summaries[g].source_ids.ids
             /\ Cardinality(summaries[g].source_ids.ids) >= 2
             /\ \A j \in summaries[g].source_ids.ids \ {req[p].item_id} :
                  ValidTicketSummaries(summaries, j) # {}

\* C5: no row is served from the cache once a record it was generated from changed
C5_NeverServesStale ==
    [][\A p \in Procs :
         (pc[p] = "CheckCache" /\ result'[p].kind = "cached")
            => ~Stale(summaries[result'[p].row])]_vars

\* C9: a forced regeneration leaves every previously valid row of the key invalid
\* and older than the row it stored
C9_ForceSupersedes ==
    [][\A p \in Procs :
         (pc[p] = "Insert" /\ req[p].force_regenerate /\ result'[p].kind = "generated")
            => \A k \in RowIds(summaries) :
                 (summaries[k].is_valid /\ RowKey(summaries[k]) = ReqKey(req[p]))
                    => /\ ~summaries'[k].is_valid
                       /\ summaries'[k].last_generated_at
                            < summaries'[result'[p].row].last_generated_at]_vars

\* C10: a request that fails has committed no change to the store
C10_FailureCommitsNothing ==
    [][\A p \in Procs :
         (pc[p] # "idle" /\ result'[p].kind = "failed") => ~wrote[p]]_vars

(***************************************************************************)
(* SummaryService: the calls and what they leave behind.                   *)
(***************************************************************************)
\* this step is a get_or_generate_summary call without force_regenerate
S_PlainCallStep ==
    /\ sres'.flip # sres.flip
    /\ sres'.kind \in {"cached", "generated"}
    /\ ~sres'.force

\* the rows get_valid_summary finds for the call made in this step
S_Found == get_valid_summary(summaries, sres'.call.summary_type, sres'.call.params)

\* C3: with edges (parent B, child A) and (parent C, child B), invalidate_summary(A)
\* leaves A, B and C with is_valid = false
C3_GraphInvalidationReachesAncestors ==
    [][(sres'.flip # sres.flip /\ sres'.kind = "invalidated")
          => \A b \in RowIds(summaries), c \in RowIds(summaries) :
               (/\ <<b, sres'.row>> \in relationships
                /\ <<c, b>> \in relationships)
                  => /\ ~summaries'[sres'.row].is_valid
                     /\ ~summaries'[b].is_valid
                     /\ ~summaries'[c].is_valid]_vars

\* C6: the second of two consecutive calls without force_regenerate, with the same
\* summary_type and params and no change of source data in between, is served from
\* the cache: same content, no source fetch, no generation, no store
C6_SecondCallServedFromCache ==
    [][(/\ S_PlainCallStep
        /\ sres.kind \in {"cached", "generated"}
        /\ ~sres.force
        /\ sres'.call = sres.call)
          => /\ sres'.kind = "cached"
             /\ ~sres'.fetched
             /\ sres'.summary = sres.summary]_vars

\* C7: a call that finds a row whose TTL has elapsed and whose source records have
\* changed regenerates it with a different hash_signature, whatever the summary_type
C7_HashSensitivityAfterTtl ==
    [][S_PlainCallStep
          => \A k \in S_Found :
               (ttl_elapsed(summaries[k], now) /\ S_Stale(records, summaries[k]))
                  => /\ sres'.kind = "generated"
                     /\ summaries'[sres'.row].hash_signature
                          # summaries[k].hash_signature
                     /\ (sres'.row # k => ~summaries'[k].is_valid)]_vars

\* C8: a validity check made while now - last_verified_at is within the ttl_hours of
\* the row's summary_type recomputes no source hash, answers valid (the row is
\* served) and writes nothing, even when the source records have changed
C8_TtlLaziness ==
    [][S_PlainCallStep
          => \A k \in S_Found :
               (now - summaries[k].last_verified_at
                    <= S_ttl_hours(summaries[k].summary_type))
                  => /\ sres'.kind = "cached"
                     /\ sres'.row \in S_Found
                     /\ sres'.hash_checks = 0
                     /\ summaries' = summaries]_vars

\* C8 witness: a row was served inside its TTL, with no hash recomputed, although a
\* record it was generated from has changed
C8_Witness ==
    /\ sres.kind = "cached"
    /\ sres.hash_checks = 0
    /\ sres.stale
    /\ now - summaries[sres.row].last_verified_at > 0

(***************************************************************************)
(* SummaryService, statement by statement: specification SpecC.            *)
(*                                                                         *)
(* Two tasks run generate_summary / store_summary and invalidate_summary   *)
(* concurrently; every awaited db.fetchrow / db.fetch / db.execute is one  *)
(* step.  Each of them acquires its own pooled connection (database.py,    *)
(* execute / fetch / fetchrow), so every statement commits by itself       *)
(* whatever `async with db.transaction()` is entered around it.            *)
(***************************************************************************)
MaxRowsC == 3           \* rows the summaries table may hold under SpecC

\* a ticket summary of the second ticket
Ticket2Call == [summary_type |-> "ticket", params |-> Params(<<2>>, 1, TRUE, <<>>)]

\* the calls of SpecC
ConcurrentCalls == {TicketCall, Ticket2Call, MultiTicketCall}

\* what a task of SpecC is doing: the operation, its call, the row it works on and
\* the ids it still has to write
C_Op(op, call, id, todo) == [op |-> op, call |-> call, id |-> id, todo |-> todo]

C_NoOp == C_Op("none", TicketCall, 0, {})

\* what the last operation of a task returned: for a store, the source_data the
\* writer generated the row from
C_Result(kind, row, writer) == [kind |-> kind, row |-> row, writer |-> writer]

C_NoWriter == [ids |-> <<>>, rows |-> {}, summary_ids |-> {}]

\* tasks inside store_summary that have not run the INSERT yet
C_Inserting == {q \in Procs : pc[q] = "Upsert"}

\* the calls among these whose INSERT will add a row (no row conflicts yet)
C_NewRows(calls) ==
    {c \in calls : conflicting_rows(summaries, c.summary_type, c.params) = {}}

\* the operation of p returns or raises
C_Return(p, kind, row, writer) ==
    /\ pc' = [pc EXCEPT ![p] = "idle"]
    /\ result' = [result EXCEPT ![p] = C_Result(kind, row, writer)]
    /\ req' = [req EXCEPT ![p] = C_NoOp]
    /\ src' = [src EXCEPT ![p] = C_NoWriter]
    /\ wrote' = [wrote EXCEPT ![p] = FALSE]

\* generate_summary up to store_summary: get_source_data, the LLM call and
\* calculate_source_data_hash
C_Generate(p, call) ==
    /\ pc[p] = "idle"
    /\ Len(summaries)
         + Cardinality(C_NewRows({req[q].call : q \in C_Inserting} \cup {call}))
            <= MaxRowsC
    /\ pc' = [pc EXCEPT ![p] = "Upsert"]
    /\ req' = [req EXCEPT ![p] = C_Op("store", call, 0, {})]
    /\ src' = [src EXCEPT ![p] =
                 S_get_source_data(records, summaries, call.summary_type, call.params)]
    /\ result' = [result EXCEPT ![p] = C_Result("none", 0, C_NoWriter)]
    /\ wrote' = [wrote EXCEPT ![p] = FALSE]
    /\ UNCHANGED <<records, summaries, now, relationships, sres, notifications>>

\* store_summary: INSERT ... ON CONFLICT DO UPDATE ... RETURNING *
C_Upsert(p) ==
    LET t == req[p].call.summary_type
        P == req[p].call.params
        id == stored_id(summaries, t, P)
        hash == calculate_source_data_hash(records, src[p].ids, t)
    IN /\ pc[p] = "Upsert"
       /\ summaries' = store_summary(summaries, t, P, src[p], hash, now)
       /\ IF src[p].summary_ids = {}
          THEN C_Return(p, "generated", id, src[p])
          ELSE /\ pc' = [pc EXCEPT ![p] = "DeleteEdges"]
               /\ req' = [req EXCEPT ![p] = C_Op("store", req[p].call, id, {})]
               /\ wrote' = [wrote EXCEPT ![p] = TRUE]
               /\ UNCHANGED <<src, result>>
       /\ UNCHANGED <<records, now, relationships, sres, notifications>>

\* store_summary_relationships: DELETE FROM summary_relationships WHERE parent_summary_id
C_DeleteEdges(p) ==
    /\ pc[p] = "DeleteEdges"
    /\ relationships' = {e \in relationships : e[1] # req[p].id}
    /\ pc' = [pc EXCEPT ![p] = "InsertEdge"]
    /\ req' = [req EXCEPT ![p] = C_Op("store", req[p].call, req[p].id, src[p].summary_ids)]
    /\ UNCHANGED <<records, summaries, now, sres, notifications, src, result, wrote>>

\* store_summary_relationships: one INSERT INTO summary_relationships of the loop
C_InsertEdge(p) ==
    LET child == CHOOSE c \in req[p].todo : \A d \in req[p].todo : c <= d
    IN /\ pc[p] = "InsertEdge"
       /\ relationships' = relationships \cup {<<req[p].id, child>>}
       /\ IF req[p].todo = {child}
          THEN C_Return(p, "generated", req[p].id, src[p])
          ELSE /\ req' = [req EXCEPT ![p] =
                            C_Op("store", req[p].call, req[p].id, req[p].todo \ {child})]
               /\ UNCHANGED <<pc, src, result, wrote>>
       /\ UNCHANGED <<records, summaries, now, sres, notifications>>

\* a statement of store_summary / store_summary_relationships raises (for the
\* first one, also: entering db.transaction() raises)
C_StoreError(p) ==
    /\ pc[p] \in {"Upsert", "DeleteEdges", "InsertEdge"}
    /\ C_Return(p, "failed", 0, C_NoWriter)
    /\ UNCHANGED <<records, summaries, now, relationships, sres, notifications>>

\* invalidate_summary(k) is called
C_Invalidate(p, k) ==
    /\ pc[p] = "idle"
    /\ k \in RowIds(summaries)
    /\ pc' = [pc EXCEPT ![p] = "InvRoot"]
    /\ req' = [req EXCEPT ![p] = C_Op("invalidate", TicketCall, k, {})]
    /\ src' = [src EXCEPT ![p] = C_NoWriter]
    /\ result' = [result EXCEPT ![p] = C_Result("none", 0, C_NoWriter)]
    /\ wrote' = [wrote EXCEPT ![p] = FALSE]
    /\ UNCHANGED <<records, summaries, now, relationships, sres, notifications>>

\* invalidate_summary: UPDATE summaries SET is_valid = false WHERE id = $1
C_InvRoot(p) ==
    /\ pc[p] = "InvRoot"
    /\ summaries' = [summaries EXCEPT ![req[p].id].is_valid = FALSE]
    /\ pc' = [pc EXCEPT ![p] = "InvFetch"]
    /\ wrote' = [wrote EXCEPT ![p] = TRUE]
    /\ UNCHANGED <<records, now, relationships, sres, notifications, req, src, result>>

\* invalidate_summary: the recursive CTE; `if dependent_summaries:`
C_InvFetch(p) ==
    LET found == dependent_summaries(relationships, req[p].id)
    IN /\ pc[p] = "InvFetch"
       /\ IF found = {}
          THEN C_Return(p, "invalidated", 0, C_NoWriter)
          ELSE /\ pc' = [pc EXCEPT ![p] = "InvDependents"]
               /\ req' = [req EXCEPT ![p] = C_Op("invalidate", TicketCall, req[p].id, found)]
               /\ UNCHANGED <<src, result, wrote>>
       /\ UNCHANGED <<records, summaries, now, relationships, sres, notifications>>

\* invalidate_summary: UPDATE summaries SET is_valid = false WHERE id = ANY($1)
C_InvDependents(p) ==
    /\ pc[p] = "InvDependents"
    /\ summaries' = [k \in RowIds(summaries) |->
                       IF k \in req[p].todo THEN [summaries[k] EXCEPT !.is_valid = FALSE]
                       ELSE summaries[k]]
    /\ C_Return(p, "invalidated", 0, C_NoWriter)
    /\ UNCHANGED <<records, now, relationships, sres, notifications>>

\* a statement of invalidate_summary raises (for the first one, also: entering
\* db.transaction() raises)
C_InvError(p) ==
    /\ pc[p] \in {"InvRoot", "InvFetch", "InvDependents"}
    /\ C_Return(p, "failed", 0, C_NoWriter)
    /\ UNCHANGED <<records, summaries, now, relationships, sres, notifications>>

\* empty tables, both tasks idle
InitC ==
    /\ records = [t \in SourceTables |-> [i \in ItemIds |-> 0]]
    /\ summaries = <<>>
    /\ relationships = {}
    /\ now = 0
    /\ sres = NoCall
    /\ notifications = <<>>
    /\ pc = [p \in Procs |-> "idle"]
    /\ req = [p \in Procs |-> C_NoOp]
    /\ src = [p \in Procs |-> C_NoWriter]
    /\ result = [p \in Procs |-> C_Result("none", 0, C_NoWriter)]
    /\ wrote = [p \in Procs |-> FALSE]

NextC ==
    \/ \E p \in Procs, c \in ConcurrentCalls : C_Generate(p, c)
    \/ \E p \in Procs : C_Upsert(p)
    \/ \E p \in Procs : C_DeleteEdges(p)
    \/ \E p \in Procs : C_InsertEdge(p)
    \/ \E p \in Procs : C_StoreError(p)
    \/ \E p \in Procs, k \in 1..MaxRowsC : C_Invalidate(p, k)
    \/ \E p \in Procs : C_InvRoot(p)
    \/ \E p \in Procs : C_InvFetch(p)
    \/ \E p \in Procs : C_InvDependents(p)
    \/ \E p \in Procs : C_InvError(p)

SpecC == InitC /\ [][NextC]_vars

\* C11: a store_summary call that raises leaves no row valid that it inserted or
\* set back to is_valid = true
C11_FailedCallLeavesNoValidRow ==
    [][\A p \in Procs :
         (/\ req[p].op = "store"
          /\ result'[p].kind = "failed"
          /\ wrote[p])
            => ~summaries'[req[p].id].is_valid]_vars

\* the rows the CTE of invalidate_summary(k) selects: the cascade set of k
C_CascadeSet(k) == dependent_summaries(relationships, k)

\* C12: while invalidate_summary(k) is running, no state shows row k invalid and a
\* row of its cascade set still valid
C12_CascadeAtomic ==
    \A p \in Procs :
        (/\ req[p].op = "invalidate"
         /\ pc[p] \in {"InvFetch", "InvDependents"}
         /\ ~summaries[req[p].id].is_valid)
            => \A d \in C_CascadeSet(req[p].id) : ~summaries[d].is_valid

\* the children of the edges whose parent is row k
C_EdgesOf(k) == {e[2] : e \in {x \in relationships : x[1] = k}}

\* row k and its edges are what this writer wrote
C_WrittenBy(k, writer) ==
    /\ summaries[k].summary = LlmSummary(summaries[k].summary_type, writer)
    /\ summaries[k].source_ids = writer.ids
    /\ summaries[k].source_summary_ids = writer.summary_ids
    /\ C_EdgesOf(k) = writer.summary_ids

\* C20: once two store operations on the same row, both built from existing
\* summaries, have returned, the row and the edges below it are those of one writer
C20_ConcurrentStoreOneWriter ==
    \A p \in Procs, q \in Procs :
        (/\ p # q
         /\ pc[p] = "idle" /\ pc[q] = "idle"
         /\ result[p].kind = "generated" /\ result[q].kind = "generated"
         /\ result[p].row = result[q].row
         /\ result[p].writer.summary_ids # {}
         /\ result[q].writer.summary_ids # {})
            => \/ C_WrittenBy(result[p].row, result[p].writer)
               \/ C_WrittenBy(result[p].row, result[q].writer)

\* a group or global row whose source_ids name item i of individual type t
References(row, t, i) ==
    /\ row.hierarchy_level \in {"group", "global"}
    /\ row.source_ids.key =
          (IF t = "zendesk_ticket" THEN "ticket_ids"
           ELSE IF t = "jira_issue" THEN "issue_ids" ELSE "account_ids")
    /\ i \in row.source_ids.ids

\* C13: when a call that generated an individual summary for item i returns, every
\* group or global row that existed before the call and references i is invalid
C13_IndividualGenerationInvalidatesAncestors ==
    [][\A p \in Procs :
         (/\ pc[p] = "Insert"
          /\ req[p].summary_type \in SUMMARY_TYPES.individual
          /\ result'[p].kind = "generated")
            => \A k \in 1..req[p].rows_before :
                 References(summaries[k], req[p].summary_type, req[p].item_id)
                    => ~summaries'[k].is_valid]_vars

\* C13 witness: a ticket summary has been generated after a group over several
\* tickets that contains the ticket, and the group is invalid
C13_Witness ==
    \E p \in Procs :
        /\ pc[p] = "idle"
        /\ result[p].kind = "generated"
        /\ summaries[result[p].row].summary_type = "zendesk_ticket"
        /\ \E g \in 1..(result[p].row - 1), i \in summaries[result[p].row].source_ids.ids :
             /\ References(summaries[g], "zendesk_ticket", i)
             /\ Cardinality(summaries[g].source_ids.ids) >= 2
             /\ ~summaries[g].is_valid

\* the types SUMMARY_TYPES lists
DeclaredTypes == SUMMARY_TYPES.individual \cup SUMMARY_TYPES.group \cup SUMMARY_TYPES.global

\* C18: a call with a summary_type that is neither supported by _get_source_data
\* nor listed in SUMMARY_TYPES is rejected before the store is read: its cache
\* lookup never runs
C18_UnsupportedTypeRejectedBeforeIO ==
    [][\A p \in Procs :
         (pc[p] = "CheckCache" /\ pc'[p] # "CheckCache")
            => req[p].summary_type \in SupportedTypes \cup DeclaredTypes]_vars

\* C19: a call for an individual item that has no source record ends in failure,
\* having committed nothing
C19_MissingRecordFails ==
    [][\A p \in Procs :
         (/\ pc[p] # "idle" /\ pc'[p] = "idle"
          /\ req[p].summary_type \in SourceTables
          /\ req[p].item_id \notin ItemIds)
            => result'[p].kind = "failed" /\ ~wrote[p]]_vars

\* C14: no step removes a row or changes a row's id, and a step that takes a row
\* from valid to invalid changes nothing else of it
C14_RowsNeverRemoved ==
    [][/\ Len(summaries') >= Len(summaries)
       /\ \A k \in RowIds(summaries) :
            /\ summaries'[k].id = summaries[k].id
            /\ (summaries[k].is_valid /\ ~summaries'[k].is_valid)
                  => summaries'[k] = [summaries[k] EXCEPT !.is_valid = FALSE]]_vars

\* C14 witness: invalidate_summary has invalidated a row and a dependent of it, and
\* both are still in the table
C14_Witness ==
    /\ sres.kind = "invalidated"
    /\ ~summaries[sres.row].is_valid
    /\ \E d \in dependent_summaries(relationships, sres.row) :
         d \in RowIds(summaries) /\ ~summaries[d].is_valid

\* two calls that differ at most in the order of their list-valued params
LogicallyIdentical(c, d) ==
    /\ c.summary_type = d.summary_type
    /\ c.params.date_range_start = d.params.date_range_start
    /\ c.params.date_range_end = d.params.date_range_end
    /\ SeqToSet(c.params.ticket_ids) = SeqToSet(d.params.ticket_ids)
    /\ c.params.use_raw_data = d.params.use_raw_data
    /\ c.params.filters = d.params.filters

\* C15: a call whose params are those of the previous call up to the order of the
\* ids, made without force_regenerate and with no change in between, is served the
\* row the previous call stored or was served
C15_PermutedParamsSameKey ==
    [][(/\ S_PlainCallStep
        /\ sres.kind \in {"cached", "generated"}
        /\ sres'.call # sres.call
        /\ LogicallyIdentical(sres.call, sres'.call))
          => /\ sres'.kind = "cached"
             /\ sres'.row = sres.row]_vars

\* this step is a get_or_generate_summary call without force_regenerate, returning
\* or raising
S_CallStep ==
    /\ sres'.flip # sres.flip
    /\ sres'.kind \in {"cached", "generated", "failed"}
    /\ ~sres'.force

\* C17: a call that finds a row whose TTL has elapsed and whose source hash has
\* changed does not raise: the row is left invalid or replaced, and the call fetches,
\* generates, stores and returns the regenerated row
C17_HashMismatchNeverAnError ==
    [][S_CallStep
          => \A k \in S_Found :
               is_summary_valid(records, summaries[k], now) = "mismatch"
                  => /\ sres'.kind = "generated"
                     /\ sres'.fetched
                     /\ summaries'[sres'.row].is_valid
                     /\ (sres'.row # k => ~summaries'[k].is_valid)]_vars

(***************************************************************************)
(* The route GET /ticket/{ticket_id} (get_ticket_summary): specification   *)
(* SpecR.  One step per request; the response is kept in sres.  A JSON     *)
(* column is the pair of its kind and its value.  The summary column of    *)
(* zendesk_tickets, which the route also rewrites, is not among the        *)
(* modelled columns of the source records.                                 *)
(***************************************************************************)
MaxRowsR == 3           \* rows the summaries table may hold under SpecR

\* source_ids ->> 'ticket_id': NULL unless the column holds an object
R_json_ticket_id(source_ids) ==
    IF source_ids[1] = "object" THEN source_ids[2].ticket_id ELSE NoDate

\* data_processing_service.generate_comprehensive_summary(context)
R_summary(R, ticket_id) ==
    <<"llm", "ticket", [id |-> ticket_id, version |-> R["zendesk_ticket"][ticket_id]]>>

\* the row of the route's INSERT INTO summaries
R_row(id, ticket_id, summary, force_regenerate, clock) ==
    [id |-> id,
     summary_type |-> "ticket",
     summary |-> summary,
     source_type |-> "raw_data",
     source_ids |-> <<"object", [ticket_id |-> ticket_id]>>,
     source_summary_ids |-> {},
     query_params |-> <<"object", [force_regenerate |-> force_regenerate]>>,
     date_range_start |-> NoDate,
     date_range_end |-> NoDate,
     hash_signature |-> <<"hash", summary>>,
     last_generated_at |-> clock,
     last_verified_at |-> clock,
     is_valid |-> TRUE]

\* the rows the route's cache SELECT matches
R_cached_rows(S, ticket_id, clock) ==
    {k \in RowIds(S) : /\ S[k].summary_type = "ticket"
                       /\ R_json_ticket_id(S[k].source_ids) = ticket_id
                       /\ S[k].is_valid
                       /\ S[k].last_generated_at > clock - 24}

\* the response of the route: cached is "true", "false", or "absent" when the
\* response has no such key; generated tells whether the generator was invoked
R_Response(ticket_id, cached, generated, row, summary) ==
    [flip |-> ~sres.flip, kind |-> "response", ticket_id |-> ticket_id,
     cached |-> cached, generated |-> generated, row |-> row, summary |-> summary]

\* the route's INSERT, whose failure is logged and swallowed
R_insert(S, ticket_id, summary, force_regenerate, clock, ok) ==
    IF ok THEN Append(S, R_row(Len(S) + 1, ticket_id, summary, force_regenerate, clock))
    ELSE S

\* a cached summary is found and returned (include_details = false)
R_ServeCached(ticket_id, k) ==
    /\ k \in R_cached_rows(summaries, ticket_id, now)
    /\ sres' = R_Response(ticket_id, "true", FALSE, k, summaries[k].summary)
    /\ UNCHANGED <<records, summaries, relationships, now>>
    /\ UNCHANGED hvars

\* a cached summary is found and include_details = true: the context is fetched,
\* a summary is generated and stored, and the response built before is returned
R_ServeCachedWithDetails(ticket_id, k, ok) ==
    /\ k \in R_cached_rows(summaries, ticket_id, now)
    /\ Len(summaries) < MaxRowsR
    /\ summaries' = R_insert(summaries, ticket_id, R_summary(records, ticket_id),
                             FALSE, now, ok)
    /\ sres' = R_Response(ticket_id, "true", TRUE, k, summaries[k].summary)
    /\ UNCHANGED <<records, relationships, now>>
    /\ UNCHANGED hvars

\* no cached summary is found: the summary is generated, stored and returned
R_Generate(ticket_id, ok) ==
    /\ R_cached_rows(summaries, ticket_id, now) = {}
    /\ Len(summaries) < MaxRowsR
    /\ summaries' = R_insert(summaries, ticket_id, R_summary(records, ticket_id),
                             FALSE, now, ok)
    /\ sres' = R_Response(ticket_id, "absent", TRUE,
                          IF ok THEN Len(summaries) + 1 ELSE 0,
                          R_summary(records, ticket_id))
    /\ UNCHANGED <<records, relationships, now>>
    /\ UNCHANGED hvars

\* force_regenerate = true: summary_service.get_or_generate_summary('ticket',
\* {'ticket_id': ticket_id}, force_regenerate=True), whose row is the response
R_Force(ticket_id) ==
    LET P == Params(<<ticket_id>>, NoDate, TRUE, <<>>)
        source_data == S_get_source_data(records, summaries, "ticket", P)
        hash == calculate_source_data_hash(records, source_data.ids, "ticket")
        id == stored_id(summaries, "ticket", P)
        stored == store_summary(summaries, "ticket", P, source_data, hash, now)
    IN /\ id <= MaxRowsR
       /\ summaries' = [stored EXCEPT ![id].source_ids = <<"array", @>>]
       /\ sres' = R_Response(ticket_id, "absent", TRUE, id,
                             LlmSummary("ticket", source_data))
       /\ UNCHANGED <<records, relationships, now>>
       /\ UNCHANGED hvars

\* no such ticket: HTTP 404
R_NotFound(ticket_id) ==
    /\ ticket_id \notin ItemIds
    /\ sres' = [flip |-> ~sres.flip, kind |-> "error", status |-> 404]
    /\ UNCHANGED <<records, summaries, relationships, now>>
    /\ UNCHANGED hvars

NextR ==
    \/ S_Tick
    \/ \E i \in ItemIds : S_MutateRecord(i)
    \/ \E i \in ItemIds, k \in 1..MaxRowsR : R_ServeCached(i, k)
    \/ \E i \in ItemIds, k \in 1..MaxRowsR, ok \in BOOLEAN :
          R_ServeCachedWithDetails(i, k, ok)
    \/ \E i \in ItemIds, ok \in BOOLEAN : R_Generate(i, ok)
    \/ \E i \in ItemIds : R_Force(i)
    \/ R_NotFound(NumItems + 1)

SpecR == InitS /\ [][NextR]_vars

\* C16: a response marked cached = true comes from a request that invoked no
\* generator and wrote no summaries row
C16_CachedFlagMeansNoGeneration ==
    [][(/\ sres'.flip # sres.flip
        /\ sres'.kind = "response"
        /\ sres'.cached = "true")
          => /\ ~sres'.generated
             /\ summaries' = summaries]_vars

(***************************************************************************)
(* Hashes, lookups and validity checks of SummaryService.                  *)
(***************************************************************************)
\* the source records a stored row was generated from, with their content
S_ContentOf(row) == row.summary[3].rows

\* C21: two stored rows over the same set of source records carry the same
\* hash_signature exactly when the content of those records was the same, whatever
\* the order their ids are listed in
C21_HashIsCanonical ==
    \A j \in RowIds(summaries), k \in RowIds(summaries) :
        SeqToSet(summaries[j].source_ids) = SeqToSet(summaries[k].source_ids)
            => (summaries[j].hash_signature = summaries[k].hash_signature
                  <=> S_ContentOf(summaries[j]) = S_ContentOf(summaries[k]))

(***************************************************************************)
(* Lookups, TTL and the dependency graph of SummaryService: properties.    *)
(***************************************************************************)

\* this step is a lookup: get_or_generate_summary without force_regenerate, or
\* GET /summaries/{summary_id}
S_LookupStep ==
    /\ sres'.flip # sres.flip
    /\ \/ sres'.kind \in {"found", "not_found"}
       \/ sres'.kind \in {"cached", "generated", "failed"} /\ ~sres'.force

\* C23: a lookup never returns a row that has is_valid = false, and leaves such a
\* row as it is (no last_verified_at refresh, no invalidation) unless the call
\* regenerates it
C23_InvalidRowNeverServed ==
    [][S_LookupStep
          => \A k \in RowIds(summaries) :
               ~summaries[k].is_valid
                  => /\ ~(sres'.kind \in {"cached", "found"} /\ sres'.row = k)
                     /\ \/ summaries'[k] = summaries[k]
                        \/ sres'.kind = "generated" /\ sres'.row = k]_vars

\* C23 witness: a call without force_regenerate generated after its lookup passed
\* over an invalid row stored under the key it asked for
C23_Witness ==
    /\ sres.kind = "generated"
    /\ ~sres.force
    /\ sres.hash_checks = 1
    /\ \E k \in get_valid_summary_any(summaries, sres.call.summary_type, sres.call.params) :
          /\ k # sres.row
          /\ ~summaries[k].is_valid
          /\ is_summary_valid(records, summaries[k], now) = "fresh"


\* the call made in this step recomputed the source hash of the row it found:
\* calculate_source_data_hash ran once more than generate_summary alone needs
S_Rechecked ==
    sres'.hash_checks = IF sres'.kind = "generated" THEN 2 ELSE 1

\* hours since the row was last verified
S_Elapsed(row) == now - row.last_verified_at

\* C24 as stated: the check short-circuits, with no hash recomputed, exactly when
\* now - last_verified_at < ttl_hours; at ttl_hours or beyond the hash is recomputed
C24_ShortCircuitBelowTtl ==
    [][S_CallStep
          => \A k \in S_Found :
               (S_Elapsed(summaries[k]) < S_ttl_hours(summaries[k].summary_type))
                  <=> ~S_Rechecked]_vars

\* C24 amended: the check short-circuits, with no hash recomputed and the row served,
\* exactly when now - last_verified_at <= ttl_hours; only beyond ttl_hours is the
\* hash recomputed and compared
C24_ShortCircuitUpToTtl ==
    [][S_CallStep
          => \A k \in S_Found :
               /\ (S_Elapsed(summaries[k]) <= S_ttl_hours(summaries[k].summary_type))
                     <=> ~S_Rechecked
               /\ ~S_Rechecked => sres'.kind = "cached" /\ sres'.row = k]_vars

\* C24 witness: a row was served with no hash recomputed exactly ttl_hours after it
\* was last verified
C24_Witness ==
    /\ sres.kind = "cached"
    /\ sres.hash_checks = 0
    /\ S_Elapsed(summaries[sres.row]) = S_ttl_hours(summaries[sres.row].summary_type)


\* C25: a call that finds a row beyond its TTL whose recomputed source hash equals
\* the stored hash_signature is served that row, and the only change to the store is
\* that row's last_verified_at, set to the current time
C25_VerifiedRowOnlyRefreshed ==
    [][S_CallStep
          => \A k \in S_Found :
               (/\ S_Elapsed(summaries[k]) > S_ttl_hours(summaries[k].summary_type)
                /\ calculate_source_data_hash(records, summaries[k].source_ids,
                                              summaries[k].summary_type)
                      = summaries[k].hash_signature)
                  => /\ sres'.kind = "cached"
                     /\ sres'.row = k
                     /\ summaries' = [summaries EXCEPT ![k].last_verified_at = now]
                     /\ relationships' = relationships]_vars

\* C25 witness: a row generated earlier was served after a hash recomputation, and
\* its last_verified_at is now the current time
C25_Witness ==
    /\ sres.kind = "cached"
    /\ sres.hash_checks = 1
    /\ summaries[sres.row].last_verified_at = now
    /\ summaries[sres.row].last_generated_at < now
    /\ summaries[sres.row].is_valid


\* the rows that were built, directly or through other rows, from row summary_id:
\* an edge has the aggregate as parent_summary_id and its source as child_summary_id
RECURSIVE ancestors_from(_, _)
ancestors_from(E, A) ==
    LET more == A \cup {e[1] : e \in {x \in E : x[2] \in A}}
    IN IF more = A THEN A ELSE ancestors_from(E, more)

S_Ancestors(E, summary_id) ==
    ancestors_from(E, {e[1] : e \in {x \in E : x[2] = summary_id}})

\* C26: invalidate_summary(A) changes no row other than A and the rows built from A,
\* directly or transitively; in particular the rows A was built from keep is_valid
C26_InvalidationTouchesOnlyAncestors ==
    [][(sres'.flip # sres.flip /\ sres'.kind = "invalidated")
          => \A k \in RowIds(summaries) :
               (k # sres'.row /\ k \notin S_Ancestors(relationships, sres'.row))
                  => summaries'[k] = summaries[k]]_vars


\* the rows the edges with parent_summary_id = k name as children
S_ChildrenOf(E, k) == {e[2] : e \in {x \in E : x[1] = k}}

\* C27: the edges with a stored row as parent are exactly one per source summary the
\* row was built from when its source_type is existing_summaries, and none when it is
\* raw_data
C27_EdgesMatchConsumedSummaries ==
    \A k \in RowIds(summaries) :
        S_ChildrenOf(relationships, k) =
            IF summaries[k].source_type = "existing_summaries"
            THEN summaries[k].source_summary_ids
            ELSE {}


BuiltFrom(row, i) ==
    {x.ticket_summary : x \in {y \in row.hash_signature[2].rows : y.id = i}} \ {NoText}

\* C30: a valid all_tickets row that contains a ticket and was built from an
\* individual summary of it was built from every individual summary of that ticket
\* stored before the row itself: no group row stored after a ticket generation
\* returned is valid and built only from summaries the generation replaced
C30_GroupNotBuiltFromReplacedSummary ==
    \A g \in RowIds(summaries), j \in RowIds(summaries) :
        (/\ summaries[g].summary_type = "all_tickets"
         /\ summaries[g].is_valid
         /\ j < g
         /\ summaries[j].summary_type = "zendesk_ticket")
            => \A i \in summaries[j].source_ids.ids :
                 (i \in summaries[g].source_ids.ids /\ BuiltFrom(summaries[g], i) # {})
                    => summaries[j].summary \in BuiltFrom(summaries[g], i)


\* C31: the cache lookup of HierarchicalSummaryService never ends a request with a
\* failure: the request either returns the cached row or goes on to fetch its
\* source data, with nothing written or changed by the lookup
C31_LookupErrorIsAMiss ==
    [][\A p \in Procs :
         (pc[p] = "CheckCache" /\ pc'[p] # "CheckCache")
            => /\ \/ pc'[p] = "idle" /\ result'[p].kind = "cached"
                  \/ pc'[p] = "Fetch" /\ req'[p] = req[p]
               /\ summaries' = summaries]_vars

\* C31 witness: a request made without force_regenerate has been generated and is
\* about to be stored although a valid row for it was in the table, unchanged since
\* the request was made: its lookup raised and was taken for a miss
C31_Witness ==
    \E p \in Procs :
        /\ pc[p] = "Insert"
        /\ ~req[p].force_regenerate
        /\ req[p].summary_type \in SUMMARY_TYPES.individual
        /\ req[p].rows_before = Len(summaries)
        /\ get_valid_cached_summary(summaries, req[p]) # {}


MaxRowsG == 2           \* rows the summaries table may hold under SpecG

\* the calls of SpecG
GenerateCalls == {TicketCall, RawMultiTicketCall}

\* what a task of SpecG is generating: the call and the hash_signature computed
G_Op(call, hash) == [call |-> call, hash |-> hash]

G_NoHash == <<"sha256", <<>>>>

G_NoOp == G_Op(TicketCall, G_NoHash)

InitG ==
    /\ records = [t \in SourceTables |-> [i \in ItemIds |-> 0]]
    /\ summaries = <<>>
    /\ relationships = {}
    /\ now = 0
    /\ sres = NoCall
    /\ notifications = <<>>
    /\ pc = [p \in Procs |-> "idle"]
    /\ req = [p \in Procs |-> G_NoOp]
    /\ src = [p \in Procs |-> C_NoWriter]
    /\ result = [p \in Procs |-> C_Result("none", 0, C_NoWriter)]
    /\ wrote = [p \in Procs |-> FALSE]

\* source_data = await self.get_source_data(summary_type, params)
G_Fetch(p, call) ==
    /\ pc[p] = "idle"
    /\ pc' = [pc EXCEPT ![p] = "Llm"]
    /\ req' = [req EXCEPT ![p] = G_Op(call, G_NoHash)]
    /\ src' = [src EXCEPT ![p] =
                 S_get_source_data(records, summaries, call.summary_type, call.params)]
    /\ result' = [result EXCEPT ![p] = C_Result("none", 0, C_NoWriter)]
    /\ UNCHANGED <<records, summaries, now, relationships, sres, notifications, wrote>>

\* summary_text = await self.generate_from_raw_data(summary_type, source_data)
G_Llm(p) ==
    /\ pc[p] = "Llm"
    /\ pc' = [pc EXCEPT ![p] = "Hash"]
    /\ UNCHANGED <<records, summaries, now, relationships, sres, notifications>>
    /\ UNCHANGED <<req, src, result, wrote>>

\* hash_signature = await self.calculate_source_data_hash(source_data['ids'], ...):
\* the tickets are read again
G_Hash(p) ==
    /\ pc[p] = "Hash"
    /\ pc' = [pc EXCEPT ![p] = "Store"]
    /\ req' = [req EXCEPT ![p].hash =
                 calculate_source_data_hash(records, src[p].ids,
                                            req[p].call.summary_type)]
    /\ UNCHANGED <<records, summaries, now, relationships, sres, notifications>>
    /\ UNCHANGED <<src, result, wrote>>

\* return await self.store_summary(...)
G_Store(p) ==
    LET t == req[p].call.summary_type
        P == req[p].call.params
        id == stored_id(summaries, t, P)
    IN /\ pc[p] = "Store"
       /\ id <= MaxRowsG
       /\ summaries' = store_summary(summaries, t, P, src[p], req[p].hash, now)
       /\ relationships' = relationships_after_store(relationships, id, src[p].summary_ids)
       /\ pc' = [pc EXCEPT ![p] = "idle"]
       /\ result' = [result EXCEPT ![p] = C_Result("generated", id, src[p])]
       /\ UNCHANGED <<records, now, sres, notifications, req, src, wrote>>

\* an awaited call of generate_summary raises
G_Error(p) ==
    /\ pc[p] # "idle"
    /\ pc' = [pc EXCEPT ![p] = "idle"]
    /\ result' = [result EXCEPT ![p] = C_Result("failed", 0, C_NoWriter)]
    /\ UNCHANGED <<records, summaries, now, relationships, sres, notifications>>
    /\ UNCHANGED <<req, src, wrote>>

NextG ==
    \/ \E i \in ItemIds : S_MutateRecord(i)
    \/ \E p \in Procs, c \in GenerateCalls : G_Fetch(p, c)
    \/ \E p \in Procs : G_Llm(p)
    \/ \E p \in Procs : G_Hash(p)
    \/ \E p \in Procs : G_Store(p)
    \/ \E p \in Procs : G_Error(p)

SpecG == InitG /\ [][NextG]_vars

\* the source tables with the tickets of a stored row as the generator saw them
S_RecordsAt(row) ==
    [records EXCEPT !["zendesk_ticket"] =
        [i \in ItemIds |->
            IF \E x \in S_ContentOf(row) : x.id = i
            THEN (CHOOSE x \in S_ContentOf(row) : x.id = i).version
            ELSE @[i]]]

\* C29: the hash_signature of every stored row is calculate_source_data_hash of the
\* source content its summary was generated from
C29_HashOfGeneratedContent ==
    \A k \in RowIds(summaries) :
        summaries[k].hash_signature =
            calculate_source_data_hash(S_RecordsAt(summaries[k]),
                                       summaries[k].source_ids,
                                       summaries[k].summary_type)

(***************************************************************************)
(* SubscriptionNotificationService.check_expiring_subscriptions:           *)
(* specification SpecN.  Task t1 is the daily run of setup_scheduler, task *)
(* t2 a run started by POST /notifications/check-subscriptions; every      *)
(* awaited db call is one step.  Under SpecN the clock counts days.        *)
(***************************************************************************)
NumSubs == 2            \* active subscriptions
MaxDay == 45            \* the clock stops here
MaxNotifications == 4   \* rows the notifications table may hold
N_DaySteps == {15}      \* days the clock advances by in one step

\* the subscriptions with status = 'Active', in the order db.fetch returns them
N_ActiveSubscriptions == [k \in 1..NumSubs |-> k]

\* what a run is doing: the subscriptions still to process and the COUNT(*) of the
\* one being processed
N_Run(todo, existing) == [todo |-> todo, existing |-> existing]

N_NoRun == N_Run(<<>>, 0)

\* SELECT COUNT(*) FROM notifications WHERE subscription_id = $1 AND type =
\* 'subscription_expiring' AND created_at >= NOW() - INTERVAL '30 days'
N_existing(N, subscription_id, clock) ==
    Cardinality({k \in 1..Len(N) : /\ N[k].subscription_id = subscription_id
                                   /\ N[k].type = "subscription_expiring"
                                   /\ N[k].created_at >= clock - 30})

\* the row of INSERT INTO notifications
N_row(subscription_id, clock) ==
    [subscription_id |-> subscription_id, type |-> "subscription_expiring",
     is_read |-> FALSE, created_at |-> clock]

InitN ==
    /\ records = [t \in SourceTables |-> [i \in ItemIds |-> 0]]
    /\ summaries = <<>>
    /\ relationships = {}
    /\ now = 0
    /\ sres = NoCall
    /\ notifications = <<>>
    /\ pc = [p \in Procs |-> "idle"]
    /\ req = [p \in Procs |-> N_NoRun]
    /\ src = [p \in Procs |-> NoSource]
    /\ result = [p \in Procs |-> NoResult]
    /\ wrote = [p \in Procs |-> FALSE]

\* a day passes
N_Tick ==
    /\ \E d \in N_DaySteps : now + d <= MaxDay /\ now' = now + d
    /\ UNCHANGED <<records, summaries, relationships, sres, notifications>>
    /\ UNCHANGED <<pc, req, src, result, wrote>>

\* the next position of a run that has todo left to process
N_Continue(p, todo) ==
    /\ pc' = [pc EXCEPT ![p] = IF todo = <<>> THEN "idle" ELSE "Count"]
    /\ req' = [req EXCEPT ![p] = N_Run(todo, 0)]

\* a run starts: the active subscriptions are fetched
N_Start(p) ==
    /\ pc[p] = "idle"
    /\ N_Continue(p, N_ActiveSubscriptions)
    /\ UNCHANGED <<records, summaries, relationships, sres, notifications, now>>
    /\ UNCHANGED <<src, result, wrote>>

\* "Check if notification already exists"
N_Count(p) ==
    LET existing == N_existing(notifications, Head(req[p].todo), now)
    IN /\ pc[p] = "Count"
       /\ IF existing = 0
          THEN /\ pc' = [pc EXCEPT ![p] = "Insert"]
               /\ req' = [req EXCEPT ![p].existing = existing]
          ELSE N_Continue(p, Tail(req[p].todo))
       /\ UNCHANGED <<records, summaries, relationships, sres, notifications, now>>
       /\ UNCHANGED <<src, result, wrote>>

\* "Insert notification"
N_Insert(p) ==
    /\ pc[p] = "Insert"
    /\ Len(notifications) < MaxNotifications
    /\ notifications' = Append(notifications, N_row(Head(req[p].todo), now))
    /\ N_Continue(p, Tail(req[p].todo))
    /\ UNCHANGED <<records, summaries, relationships, sres, now>>
    /\ UNCHANGED <<src, result, wrote>>

\* a db call raises: the run logs and re-raises
N_Error(p) ==
    /\ pc[p] # "idle"
    /\ N_Continue(p, <<>>)
    /\ UNCHANGED <<records, summaries, relationships, sres, notifications, now>>
    /\ UNCHANGED <<src, result, wrote>>

NextN ==
    \/ N_Tick
    \/ \E p \in Procs : N_Start(p)
    \/ \E p \in Procs : N_Count(p)
    \/ \E p \in Procs : N_Insert(p)
    \/ \E p \in Procs : N_Error(p)

SpecN == InitN /\ [][NextN]_vars

\* C22: no subscription has two 'subscription_expiring' notifications created less
\* than 30 days apart
C22_NoDuplicateNotification ==
    \A j \in 1..Len(notifications), k \in 1..Len(notifications) :
        (/\ j < k
         /\ notifications[j].subscription_id = notifications[k].subscription_id
         /\ notifications[j].type = "subscription_expiring"
         /\ notifications[k].type = "subscription_expiring")
            => notifications[k].created_at - notifications[j].created_at >= 30

(***************************************************************************)
(* SummaryService.invalidate_summary, the recursive query step by step.    *)
(*                                                                         *)
(* Specification SpecK runs invalidate_summary over an arbitrary           *)
(* summary_relationships table (cycles, self references and diamonds       *)
(* included) and evaluates WITH RECURSIVE dependents the way the database  *)
(* does: the non-recursive term fills the result and the working table;    *)
(* while the working table is not empty the recursive term is evaluated    *)
(* against it, UNION discards the rows already in the result, what remains *)
(* is added to the result and becomes the next working table.              *)
(* db.transaction() is modelled as entering, the statements as succeeding. *)
(***************************************************************************)
MaxRowsK == 4           \* rows of the summaries table under SpecK
MaxEdgesK == 5          \* rows of the summary_relationships table under SpecK

K_Ids == 1..MaxRowsK

\* the task that calls invalidate_summary
K_Task == "t1"

\* the summary_relationships tables of SpecK
K_Relations == {E \in SUBSET (K_Ids \X K_Ids) : Cardinality(E) <= MaxEdgesK}

\* a stored row
K_row(id) ==
    LET R == [t \in SourceTables |-> [i \in ItemIds |-> 0]]
        P == [TicketCall.params EXCEPT !.date_range_start = id, !.date_range_end = id]
        source_data == S_get_source_data(R, <<>>, "ticket", P)
    IN S_row(id, "ticket", P, source_data,
             calculate_source_data_hash(R, source_data.ids, "ticket"), 0)

\* the tables of the recursive query: how many times each child_summary_id is in
\* the result, and the working table
K_Tables(result_rows, working) == [result |-> result_rows, working |-> working]

K_NoTables == K_Tables([c \in K_Ids |-> 0], {})

K_Return(kind, summary_id, ids) ==
    [kind |-> kind, summary_id |-> summary_id, dependent_summaries |-> ids]

\* SELECT child_summary_id FROM summary_relationships [sr INNER JOIN dependents d ON
\* sr.parent_summary_id = d.child_summary_id]: how many rows carry each child
child_summary_id(E, parents) ==
    [c \in K_Ids |-> Cardinality({e \in E : e[1] \in parents /\ e[2] = c})]

\* UNION ALL: every row of the term is added to the result
dependents_union_all(result_rows, term) ==
    [c \in K_Ids |-> result_rows[c] + term[c]]

\* UNION: the rows of the term not yet in the result are added to it, once each
dependents_union(result_rows, term) ==
    [c \in K_Ids |-> IF term[c] > 0 /\ result_rows[c] = 0 THEN 1 ELSE result_rows[c]]

\* the next working table: the rows UNION has just added
dependents_working(result_rows, term) ==
    {c \in K_Ids : term[c] > 0 /\ result_rows[c] = 0}

InitK ==
    /\ records = [t \in SourceTables |-> [i \in ItemIds |-> 0]]
    /\ summaries = [k \in K_Ids |-> K_row(k)]
    /\ relationships \in K_Relations
    /\ now = 0
    /\ sres = NoCall
    /\ notifications = <<>>
    /\ pc = [p \in Procs |-> "idle"]
    /\ req = [p \in Procs |-> 0]
    /\ src = [p \in Procs |-> K_NoTables]
    /\ result = [p \in Procs |-> K_Return("none", 0, {})]
    /\ wrote = [p \in Procs |-> FALSE]

\* invalidate_summary(summary_id) is called
K_Invalidate(summary_id) ==
    /\ pc[K_Task] = "idle"
    /\ summaries[summary_id].is_valid
    /\ pc' = [pc EXCEPT ![K_Task] = "UpdateRoot"]
    /\ req' = [req EXCEPT ![K_Task] = summary_id]
    /\ src' = [src EXCEPT ![K_Task] = K_NoTables]
    /\ result' = [result EXCEPT ![K_Task] = K_Return("none", 0, {})]
    /\ UNCHANGED <<records, summaries, relationships, sres, notifications, now, wrote>>

\* UPDATE summaries SET is_valid = false WHERE id = $1
K_UpdateRoot ==
    /\ pc[K_Task] = "UpdateRoot"
    /\ summaries' = [summaries EXCEPT ![req[K_Task]].is_valid = FALSE]
    /\ pc' = [pc EXCEPT ![K_Task] = "NonRecursiveTerm"]
    /\ UNCHANGED <<records, relationships, sres, notifications, now, req, src, result, wrote>>

\* the non-recursive term: the children of $1
K_NonRecursiveTerm ==
    LET term == child_summary_id(relationships, {req[K_Task]})
    IN /\ pc[K_Task] = "NonRecursiveTerm"
       /\ src' = [src EXCEPT ![K_Task] =
                     K_Tables(dependents_union(src[K_Task].result, term),
                              dependents_working(src[K_Task].result, term))]
       /\ pc' = [pc EXCEPT ![K_Task] = "RecursiveTerm"]
       /\ UNCHANGED <<records, summaries, relationships, sres, notifications, now, req,
                      result, wrote>>

\* the recursive term, evaluated against a working table that is not empty
K_RecursiveTerm ==
    LET term == child_summary_id(relationships, src[K_Task].working)
    IN /\ pc[K_Task] = "RecursiveTerm"
       /\ src[K_Task].working # {}
       /\ src' = [src EXCEPT ![K_Task] =
                     K_Tables(dependents_union(src[K_Task].result, term),
                              dependents_working(src[K_Task].result, term))]
       /\ UNCHANGED <<records, summaries, relationships, sres, notifications, now, pc, req,
                      result, wrote>>

\* the working table is empty: SELECT DISTINCT child_summary_id FROM dependents
K_Select ==
    /\ pc[K_Task] = "RecursiveTerm"
    /\ src[K_Task].working = {}
    /\ result' = [result EXCEPT ![K_Task] =
                     K_Return("fetched", req[K_Task],
                              {c \in K_Ids : src[K_Task].result[c] > 0})]
    /\ pc' = [pc EXCEPT ![K_Task] = "UpdateDependents"]
    /\ UNCHANGED <<records, summaries, relationships, sres, notifications, now, req, src,
                   wrote>>

\* if dependent_summaries: UPDATE summaries SET is_valid = false WHERE id = ANY($1)
K_UpdateDependents ==
    /\ pc[K_Task] = "UpdateDependents"
    /\ summaries' = [k \in K_Ids |->
                        IF k \in result[K_Task].dependent_summaries
                        THEN [summaries[k] EXCEPT !.is_valid = FALSE]
                        ELSE summaries[k]]
    /\ result' = [result EXCEPT ![K_Task].kind = "invalidated"]
    /\ pc' = [pc EXCEPT ![K_Task] = "idle"]
    /\ UNCHANGED <<records, relationships, sres, notifications, now, req, src, wrote>>

NextK ==
    \/ \E k \in K_Ids : K_Invalidate(k)
    \/ K_UpdateRoot
    \/ K_NonRecursiveTerm
    \/ K_RecursiveTerm
    \/ K_Select
    \/ K_UpdateDependents

SpecK == InitK /\ [][NextK]_vars

\* the database and the event loop run a statement that has been issued
FairSpecK ==
    SpecK /\ WF_vars(K_UpdateRoot \/ K_NonRecursiveTerm \/ K_RecursiveTerm
                        \/ K_Select \/ K_UpdateDependents)

\* the relation has a cycle through descendants of summary_id
K_HasCycle(E, summary_id) ==
    \E c \in dependent_summaries(E, summary_id) : c \in dependent_summaries(E, c)

\* the relation has a diamond below summary_id: two children with a common child
K_HasDiamond(E, summary_id) ==
    \E a, b, d \in K_Ids :
        /\ Cardinality({summary_id, a, b, d}) = 4
        /\ {<<summary_id, a>>, <<summary_id, b>>, <<a, d>>, <<b, d>>} \subseteq E

\* C33: over every summary_relationships table the recursive query of
\* invalidate_summary ends, no child_summary_id is in its result more than once, and
\* the ids it returns are exactly the ids reachable from summary_id along the edges
C33_CascadeTerminatesOnce ==
    /\ [](\A c \in K_Ids : src[K_Task].result[c] <= 1)
    /\ [](pc[K_Task] = "UpdateDependents"
            => result[K_Task].dependent_summaries
                  = dependent_summaries(relationships, req[K_Task]))
    /\ (pc[K_Task] = "NonRecursiveTerm") ~> (pc[K_Task] = "idle")

\* C33 witness: the query has ended on a table with a diamond below summary_id and a
\* cycle among its descendants, and has returned every one of them
C33_Witness ==
    /\ pc[K_Task] = "UpdateDependents"
    /\ K_HasDiamond(relationships, req[K_Task])
    /\ K_HasCycle(relationships, req[K_Task])
    /\ Cardinality(result[K_Task].dependent_summaries) = MaxRowsK - 1

(***************************************************************************)
(* DataProcessingService.process_and_summarize_record and its per-ticket   *)
(* cache in ticket_summaries: specification SpecD.                         *)
(*                                                                         *)
(* Under SpecD `summaries` holds the ticket_summaries table (one row per   *)
(* ticket_id) and `records` the related data of ticket 1: the length of    *)
(* its linked_jira_issues column, its rows in zendesk_jira_links (each     *)
(* joining one jira issue) and the jira_issues rows whose                  *)
(* linked_zendesk_ticket is the ticket.  The clock counts hours.  A Python *)
(* value is a pair <<type, value>>: the pool of DatabaseService registers  *)
(* no codec, so a JSON column is read back as the str that was written.    *)
(***************************************************************************)
MaxRelatedD == 1        \* related rows a table may hold for the ticket
MaxTimeD == 36          \* the clock stops here
D_ClockSteps == {12}    \* hours the clock advances by in one step

\* the task that calls process_and_summarize_record
D_Task == "t1"

\* ids of the rows of zendesk_tickets, and the record_ids asked for
D_TicketIds == {1}
D_RecordIds == {1, 2}

\* the summaries llm_service.generate_summary may return
D_Summaries == {"summary a", "summary b"}

D_RelatedTables == {"linked_jira_issues", "zendesk_jira_links", "jira_issues"}

\* a Python dict, and json.dumps of one
D_dict(x) == <<"dict", x>>
D_json_dumps(x) == <<"str", x>>

\* Python a != b: values of different types are different
D_ne(a, b) == a[1] # b[1] \/ a[2] # b[2]

\* last_generated_at of a row INSERTed without the column: the column's default
D_default_last_generated_at(clock) == clock

\* the local variables of a call
D_Locals(record, should_regenerate, check_error, summary, metadata) ==
    [record |-> record, should_regenerate |-> should_regenerate,
     check_error |-> check_error, summary |-> summary, metadata |-> metadata]

D_NoMetadata == [link_count |-> 0, jira_count |-> 0]

D_NoLocals == D_Locals(0, FALSE, FALSE, "", D_NoMetadata)

\* what the call returned; generated: llm_service.generate_summary was invoked
D_Response(status, cached, summary, generated) ==
    [status |-> status, cached |-> cached, summary |-> summary, generated |-> generated]

D_NoResponse == D_Response("none", FALSE, "", FALSE)

\* SELECT ... FROM ticket_summaries ts WHERE ts.ticket_id = $1
D_rows(T, ticket_id) == {k \in RowIds(T) : T[k].ticket_id = ticket_id}

\* the counts the SELECT of should_regenerate_summary computes
D_current_metadata(R) ==
    [link_count |-> R["zendesk_jira_links"], jira_count |-> R["zendesk_jira_links"]]

\* should_regenerate_summary, when its SELECT succeeds
should_regenerate_summary(T, R, ticket_id, clock) ==
    IF D_rows(T, ticket_id) = {} THEN TRUE
    ELSE LET row == T[CHOOSE k \in D_rows(T, ticket_id) : TRUE]
             current_metadata == D_dict(D_current_metadata(R))
             stored_metadata == row.metadata
         IN IF D_ne(current_metadata, stored_metadata) THEN TRUE
            ELSE IF row.last_generated_at < clock - 24 THEN TRUE
            ELSE FALSE

\* store_summary: INSERT ... ON CONFLICT (ticket_id) DO UPDATE
D_store_summary(T, ticket_id, summary, metadata, clock) ==
    IF D_rows(T, ticket_id) = {}
    THEN Append(T, [ticket_id |-> ticket_id, summary |-> summary,
                    metadata |-> D_json_dumps(metadata),
                    last_generated_at |-> D_default_last_generated_at(clock)])
    ELSE [k \in RowIds(T) |->
             IF T[k].ticket_id = ticket_id
             THEN [T[k] EXCEPT !.summary = summary,
                               !.metadata = D_json_dumps(metadata),
                               !.last_generated_at = clock]
             ELSE T[k]]

InitD ==
    /\ records = [t \in D_RelatedTables |-> 0]
    /\ summaries = <<>>
    /\ relationships = {}
    /\ now = 0
    /\ sres = NoCall
    /\ notifications = <<>>
    /\ pc = [p \in Procs |-> "idle"]
    /\ req = [p \in Procs |-> 0]
    /\ src = [p \in Procs |-> D_NoLocals]
    /\ result = [p \in Procs |-> D_NoResponse]
    /\ wrote = [p \in Procs |-> FALSE]

\* time passes
D_Tick ==
    /\ \E d \in D_ClockSteps : now + d <= MaxTimeD /\ now' = now + d
    /\ UNCHANGED <<records, summaries, relationships, sres, notifications>>
    /\ UNCHANGED <<pc, req, src, result, wrote>>

\* a related record of the ticket is added
D_AddRelated(t) ==
    /\ records[t] < MaxRelatedD
    /\ records' = [records EXCEPT ![t] = @ + 1]
    /\ UNCHANGED <<summaries, relationships, sres, notifications, now>>
    /\ UNCHANGED <<pc, req, src, result, wrote>>

\* the call ends
D_Return(response) ==
    /\ pc' = [pc EXCEPT ![D_Task] = "idle"]
    /\ result' = [result EXCEPT ![D_Task] = response]

\* process_and_summarize_record('zendesk_tickets', record_id) is called
D_Call(record_id) ==
    /\ pc[D_Task] = "idle"
    /\ pc' = [pc EXCEPT ![D_Task] = "FetchRecord"]
    /\ req' = [req EXCEPT ![D_Task] = record_id]
    /\ src' = [src EXCEPT ![D_Task] = D_NoLocals]
    /\ result' = [result EXCEPT ![D_Task] = D_NoResponse]
    /\ UNCHANGED <<records, summaries, relationships, sres, notifications, now, wrote>>

\* record = await db.fetchrow(...): the record is there
D_FetchRecord ==
    /\ pc[D_Task] = "FetchRecord"
    /\ req[D_Task] \in D_TicketIds
    /\ src' = [src EXCEPT ![D_Task].record = records["linked_jira_issues"]]
    /\ pc' = [pc EXCEPT ![D_Task] = "Check"]
    /\ UNCHANGED <<records, summaries, relationships, sres, notifications, now, req,
                   result, wrote>>

\* if not record: raise ValueError
D_NoRecord ==
    /\ pc[D_Task] = "FetchRecord"
    /\ req[D_Task] \notin D_TicketIds
    /\ D_Return(D_Response("error", FALSE, "", FALSE))
    /\ UNCHANGED <<records, summaries, relationships, sres, notifications, now, req, src,
                   wrote>>

\* should_regenerate_summary (True when its SELECT raises) and, when it says no,
\* get_cached_summary (None when its SELECT raises), whose row is returned
D_Check(check_error, cache_error) ==
    LET ticket_id == req[D_Task]
        should_regenerate ==
            check_error \/ should_regenerate_summary(summaries, records, ticket_id, now)
        cached_rows == IF cache_error THEN {} ELSE D_rows(summaries, ticket_id)
    IN /\ pc[D_Task] = "Check"
       /\ src' = [src EXCEPT ![D_Task].should_regenerate = should_regenerate,
                             ![D_Task].check_error = check_error]
       /\ IF should_regenerate \/ cached_rows = {}
          THEN /\ pc' = [pc EXCEPT ![D_Task] = "Llm"]
               /\ UNCHANGED result
          ELSE D_Return(D_Response("success", TRUE,
                                   summaries[CHOOSE k \in cached_rows : TRUE].summary,
                                   FALSE))
       /\ UNCHANGED <<records, summaries, relationships, sres, notifications, now, req,
                      wrote>>

\* summary = await llm_service.generate_summary(...)
D_Llm(summary) ==
    /\ pc[D_Task] = "Llm"
    /\ src' = [src EXCEPT ![D_Task].summary = summary]
    /\ pc' = [pc EXCEPT ![D_Task] = "Metadata"]
    /\ UNCHANGED <<records, summaries, relationships, sres, notifications, now, req,
                   result, wrote>>

\* metadata = {'link_count': len(record.get('linked_jira_issues', [])),
\*             'jira_count': len(await db.fetch("SELECT * FROM jira_issues WHERE
\*                                               linked_zendesk_ticket = $1"))}
D_Metadata ==
    /\ pc[D_Task] = "Metadata"
    /\ src' = [src EXCEPT ![D_Task].metadata =
                  [link_count |-> src[D_Task].record,
                   jira_count |-> records["jira_issues"]]]
    /\ pc' = [pc EXCEPT ![D_Task] = "Store"]
    /\ UNCHANGED <<records, summaries, relationships, sres, notifications, now, req,
                   result, wrote>>

\* await self.store_summary(converted_id, summary, metadata); return {... "cached": False}
D_Store ==
    /\ pc[D_Task] = "Store"
    /\ summaries' = D_store_summary(summaries, req[D_Task], src[D_Task].summary,
                                    src[D_Task].metadata, now)
    /\ D_Return(D_Response("success", FALSE, src[D_Task].summary, TRUE))
    /\ UNCHANGED <<records, relationships, sres, notifications, now, req, src, wrote>>

\* an awaited call of process_and_summarize_record raises: logged and re-raised
D_Error ==
    /\ pc[D_Task] \in {"FetchRecord", "Llm", "Metadata", "Store"}
    /\ D_Return(D_Response("error", FALSE, "", pc[D_Task] \in {"Metadata", "Store"}))
    /\ UNCHANGED <<records, summaries, relationships, sres, notifications, now, req, src,
                   wrote>>

NextD ==
    \/ D_Tick
    \/ \E t \in D_RelatedTables : D_AddRelated(t)
    \/ \E i \in D_RecordIds : D_Call(i)
    \/ D_FetchRecord
    \/ D_NoRecord
    \/ \E check_error, cache_error \in BOOLEAN : D_Check(check_error, cache_error)
    \/ \E s \in D_Summaries : D_Llm(s)
    \/ D_Metadata
    \/ D_Store
    \/ D_Error

SpecD == InitD /\ [][NextD]_vars

\* the related-record counts stored with a row
D_stored_counts(row) == row.metadata[2]

====
